---- MODULE Spec2Model ----
(***************************************************************************)
(* The query-to-answer pipeline of the analytics agent                     *)
(* (backend/agents/analytics_agent.py), the insight synthesis it calls     *)
(* (backend/agents/analytics_utils.py), the index load of                  *)
(* backend/embeddings/generator.py and the streamed chat response of       *)
(* backend/api/main.py.                                                    *)
(*                                                                         *)
(* Texts are sequences of one-character strings, so that slicing,          *)
(* trimming, lower-casing and substring tests are computed as the code     *)
(* computes them.  The vector index, the embedding service and the         *)
(* completion service are external: what they hold or answer is drawn      *)
(* from bounded sets.                                                      *)
(***************************************************************************)
EXTENDS Integers, Sequences, FiniteSets, TLC

----------------------------------------------------------------------------
(* Bounds of the model *)

\* the longest result list an index holds for the query of a run
MaxResults == 3

\* the most fragments one completion stream delivers
MaxChunks == 2

\* the most raw chart or comment texts a request carries
MaxSupplied == 1

(* Constants of the program *)

\* self.max_context_sources, also the k of each search
max_context_sources == 5

\* content_key[:50]
KeyLen == 50

\* unique_insights[:8]
MaxInsightsSync == 8

\* insights[:10]
MaxInsightsGenerated == 10

\* len(insights) < 5 : the completion service is asked for more insights
LlmInsightThreshold == 5

\* insights[:3] of _get_llm_insights
MaxLlmInsights == 3

\* questions[:3]
MaxQuestions == 3

----------------------------------------------------------------------------
(* Texts *)

Min(a, b) == IF a < b THEN a ELSE b

\* str.lower() on one character
LowerChar(c) ==
    CASE c = "A" -> "a" [] c = "B" -> "b" [] c = "C" -> "c" [] c = "D" -> "d"
      [] c = "E" -> "e" [] c = "F" -> "f" [] c = "G" -> "g" [] c = "H" -> "h"
      [] c = "I" -> "i" [] c = "J" -> "j" [] c = "K" -> "k" [] c = "L" -> "l"
      [] c = "M" -> "m" [] c = "N" -> "n" [] c = "O" -> "o" [] c = "P" -> "p"
      [] c = "Q" -> "q" [] c = "R" -> "r" [] c = "S" -> "s" [] c = "T" -> "t"
      [] c = "U" -> "u" [] c = "V" -> "v" [] c = "W" -> "w" [] c = "X" -> "x"
      [] c = "Y" -> "y" [] c = "Z" -> "z" [] OTHER -> c

\* str.lower()
Lower(s) == [i \in 1..Len(s) |-> LowerChar(s[i])]

IsSpace(c) == c \in {" ", "\n", "\t", "\r"}

\* str.lstrip()
RECURSIVE StripLeft(_)
StripLeft(s) == IF Len(s) > 0 /\ IsSpace(s[1]) THEN StripLeft(Tail(s)) ELSE s

\* str.rstrip()
RECURSIVE StripRight(_)
StripRight(s) ==
    IF Len(s) > 0 /\ IsSpace(s[Len(s)]) THEN StripRight(SubSeq(s, 1, Len(s) - 1)) ELSE s

\* str.strip()
Strip(s) == StripRight(StripLeft(s))

\* s[:n]
Take(s, n) == SubSeq(s, 1, Min(n, Len(s)))

\* pat in s
Contains(s, pat) ==
    \E i \in 1..(Len(s) - Len(pat) + 1) : SubSeq(s, i, i + Len(pat) - 1) = pat

\* sep.join(parts)
RECURSIVE Join(_, _)
Join(parts, sep) ==
    IF Len(parts) = 0 THEN <<>>
    ELSE IF Len(parts) = 1 THEN parts[1]
    ELSE parts[1] \o sep \o Join(Tail(parts), sep)

\* "".join(parts)
RECURSIVE Concat(_)
Concat(parts) ==
    IF Len(parts) = 0 THEN <<>> ELSE parts[1] \o Concat(Tail(parts))

\* the decimal digits of a small natural number, as an f-string renders it
Digits(n) ==
    LET d == <<"0", "1", "2", "3", "4", "5", "6", "7", "8", "9">>
    IN  IF n < 10 THEN <<d[n + 1]>> ELSE <<d[(n \div 10) + 1], d[(n % 10) + 1]>>

\* a text of n copies of c
Pad(c, n) == [i \in 1..n |-> c]

Newline == <<"\n">>

NoIndexedDataMsg ==
    <<"N","o"," ","i","n","d","e","x","e","d"," ","d","a","t","a"," ","f","o","u","n","d","."," ","P","l","e","a","s","e"," ","e","n","s","u","r","e"," ","d","a","t","a"," ","i","s"," ","p","r","o","c","e","s","s","e","d"," ","a","n","d"," ","i","n","d","e","x","e","d"," ","f","i","r","s","t",".">>

NoIndexedDataMarker ==
    <<"n","o"," ","i","n","d","e","x","e","d"," ","d","a","t","a">>

AnalyticalMarker ==
    <<"a","n","a","l","y","t","i","c","a","l">>

FoundPrefix ==
    <<"F","o","u","n","d"," ">>

FoundMiddle ==
    <<" ","u","n","i","q","u","e"," ","c","o","n","t","e","x","t"," ","s","o","u","r","c","e","s"," ","f","o","r"," ","q","u","e","r","y",":"," ","'">>

FoundSuffix ==
    <<"'","\n">>

ChartHeader ==
    <<"[","C","h","a","r","t"," ","C","o","n","t","e","x","t"," ">>

CommentHeader ==
    <<"[","C","o","m","m","e","n","t"," ","C","o","n","t","e","x","t"," ">>

ScoreOpen ==
    <<"]"," ","(","S","c","o","r","e",":"," ">>

ScoreDecimals ==
    <<".","0","0","0">>

PageLabel ==
    <<")","\n","P","a","g","e",":"," ">>

CommentIdLabel ==
    <<")","\n","C","o","m","m","e","n","t"," ","I","D",":"," ">>

ContentLabel ==
    <<"\n","C","o","n","t","e","n","t",":"," ">>

NotAvailable ==
    <<"N","/","A">>

UnknownId ==
    <<"u","n","k","n","o","w","n">>

ChartsNotePrefix ==
    <<"N","o","t","e",":"," ","C","h","a","r","t","s"," ","i","n","d","e","x"," ","n","o","t"," ","f","o","u","n","d","."," ">>

ChartsNoteSuffix ==
    <<" ","c","h","a","r","t","s"," ","p","r","o","v","i","d","e","d"," ","b","u","t"," ","n","o","t"," ","i","n","d","e","x","e","d",".">>

CommentsNotePrefix ==
    <<"N","o","t","e",":"," ","C","o","m","m","e","n","t","s"," ","i","n","d","e","x"," ","n","o","t"," ","f","o","u","n","d","."," ">>

CommentsNoteSuffix ==
    <<" ","c","o","m","m","e","n","t","s"," ","p","r","o","v","i","d","e","d"," ","b","u","t"," ","n","o","t"," ","i","n","d","e","x","e","d",".">>

RedirectResponse ==
    <<"I","'","m"," ","d","e","s","i","g","n","e","d"," ","t","o"," ","h","e","l","p"," ","w","i","t","h"," ","s","o","c","i","a","l"," ","m","e","d","i","a"," ","a","n","a","l","y","t","i","c","s","."," ","P","l","e","a","s","e"," ","a","s","k"," ","q","u","e","s","t","i","o","n","s"," ","a","b","o","u","t"," ","m","e","t","r","i","c","s",","," ","t","r","e","n","d","s",","," ","o","r"," ","d","a","t","a"," ","i","n","s","i","g","h","t","s",".">>

ReplyAnalytical ==
    <<"a","n","a","l","y","t","i","c","a","l">>

ReplyNonAnalytical ==
    <<"n","o","n","-","a","n","a","l","y","t","i","c","a","l">>

ReplyCapitalised ==
    <<"A","n","a","l","y","t","i","c","a","l">>

ReplyOther ==
    <<"o","f","f","-","t","o","p","i","c">>

QueryPlain ==
    <<"g","r","o","w","t","h","?">>

QueryMarker ==
    <<"W","h","y"," ","N","o"," ","I","n","d","e","x","e","d"," ","D","a","t","a","?">>

Comment0 ==
    <<"c","o","m","m","e","n","t","_","0">>

Comment1 ==
    <<"c","o","m","m","e","n","t","_","1">>

Comment2 ==
    <<"c","o","m","m","e","n","t","_","2">>

----------------------------------------------------------------------------
(* Documents held by the two vector indices.  A document is a text chunk,  *)
(* its metadata, the score the index gives it for the query of the run,    *)
(* and feat: what the extractors of analytics_utils.py find in the text    *)
(* (percentages, trend words, TextBlob polarity, lexicon hits, topic       *)
(* words).                                                                 *)

NoFeat == [pcts |-> <<>>, up |-> 0, down |-> 0, polarity |-> 0, posw |-> 0, negw |-> 0, words |-> <<>>]

\* "engagement rate rise" padded to KeyLen characters
ChartBase ==
    <<"e","n","g","a","g","e","m","e","n","t"," ","r","a","t","e"," ","r","i","s","e">> \o Pad(".", KeyLen - 20)

\* "great product love it" padded to KeyLen characters
CommentBase ==
    <<"g","r","e","a","t"," ","p","r","o","d","u","c","t"," ","l","o","v","e"," ","i","t"," ">> \o Pad("!", KeyLen - 22)

ChartDocA ==
    [content |-> ChartBase \o <<" ","6","0","%">>,
     metadata |-> [source |-> "pdf_text", page |-> 1],
     score |-> 1,
     feat |-> [NoFeat EXCEPT !.pcts = <<60>>, !.up = 1, !.words = <<"engagement", "rate", "rise">>]]

\* the same first KeyLen characters as ChartDocA once trimmed, another tail
ChartDocA2 ==
    [content |-> <<" ">> \o ChartBase \o <<" ","4","%">>,
     metadata |-> [source |-> "pdf_text", page |-> 2],
     score |-> 3,
     feat |-> [NoFeat EXCEPT !.pcts = <<4>>, !.up = 1, !.words = <<"engagement", "rate", "rise">>]]

\* "No Indexed Data: drop 12% to 8%", a document without a page
ChartDocB ==
    [content |-> <<"N","o"," ","I","n","d","e","x","e","d"," ","D","a","t","a",":"," ","d","r","o","p"," ","1","2","%"," ","t","o"," ","8","%">>,
     metadata |-> [source |-> "pdf_table"],
     score |-> 2,
     feat |-> [NoFeat EXCEPT !.pcts = <<12, 8>>, !.down = 1, !.words = <<"indexed", "data", "drop">>]]

\* a comment held by the combined index that the charts collection reads
ChartDocC ==
    [content |-> CommentBase,
     metadata |-> [source |-> "comment", comment_id |-> Comment0],
     score |-> 2,
     feat |-> [NoFeat EXCEPT !.polarity = 65, !.posw = 2, !.words = <<"great", "product", "love">>]]

\* "Sales fell 30%", indexed from a chat request
ChartDocD ==
    [content |-> <<"S","a","l","e","s"," ","f","e","l","l"," ","3","0","%">>,
     metadata |-> [source |-> "uploaded_chart", page |-> 1, chart_id |-> "chart_0"],
     score |-> 1,
     feat |-> [NoFeat EXCEPT !.pcts = <<30>>, !.words = <<"sales", "fell">>]]

CommentDocA ==
    [content |-> CommentBase,
     metadata |-> [source |-> "user_comment", comment_id |-> Comment0],
     score |-> 2,
     feat |-> [NoFeat EXCEPT !.polarity = 65, !.posw = 2, !.words = <<"great", "product", "love">>]]

\* the same comment id and first KeyLen characters as CommentDocA, another tail
CommentDocA2 ==
    [content |-> CommentBase \o <<" ","b","a","d">>,
     metadata |-> [source |-> "user_comment", comment_id |-> Comment0],
     score |-> 3,
     feat |-> [NoFeat EXCEPT !.polarity = 5, !.posw = 2, !.negw = 1, !.words = <<"great", "product", "love">>]]

\* "awful app"
CommentDocB ==
    [content |-> <<"a","w","f","u","l"," ","a","p","p">>,
     metadata |-> [source |-> "user_comment", comment_id |-> Comment1],
     score |-> 1,
     feat |-> [NoFeat EXCEPT !.polarity = -100, !.negw = 1, !.words = <<"awful">>]]

\* the text of CommentDocA under another comment id
CommentDocC ==
    [content |-> CommentBase,
     metadata |-> [source |-> "user_comment", comment_id |-> Comment2],
     score |-> 3,
     feat |-> [NoFeat EXCEPT !.polarity = 65, !.posw = 2, !.words = <<"great", "product", "love">>]]

\* the documents of each collection in the order similarity_search_with_score
\* returns them: by ascending score
ChartPool == <<ChartDocA, ChartDocD, ChartDocB, ChartDocC, ChartDocA2>>

CommentPool == <<CommentDocB, CommentDocA, CommentDocA2, CommentDocC>>

\* the text of ChartDocD, indexed as the second chart of a chat request
ChartDocE ==
    [content |-> <<"S","a","l","e","s"," ","f","e","l","l"," ","3","0","%">>,
     metadata |-> [source |-> "uploaded_chart", page |-> 2, chart_id |-> "chart_1"],
     score |-> 2,
     feat |-> [NoFeat EXCEPT !.pcts = <<30>>, !.words = <<"sales", "fell">>]]

\* "Reach up 70%"
ChartDocF ==
    [content |-> <<"R","e","a","c","h"," ","u","p"," ","7","0","%">>,
     metadata |-> [source |-> "pdf_text", page |-> 3],
     score |-> 2,
     feat |-> [NoFeat EXCEPT !.pcts = <<70>>, !.up = 1, !.words = <<"reach", "up">>]]

\* "Awful App": the text of CommentDocB in another letter case
CommentDocD ==
    [content |-> <<"A","w","f","u","l"," ","A","p","p">>,
     metadata |-> [source |-> "user_comment", comment_id |-> Comment1],
     score |-> 2,
     feat |-> [NoFeat EXCEPT !.polarity = -100, !.negw = 1, !.words = <<"awful">>]]

\* a second set of documents, again by ascending score
ChartPool2 == <<ChartDocA, ChartDocD, ChartDocE, ChartDocF>>

CommentPool2 == <<CommentDocB, CommentDocD>>

\* what the two index directories may hold
Catalogues ==
    {[charts |-> ChartPool, comments |-> CommentPool],
     [charts |-> ChartPool2, comments |-> CommentPool2]}

\* the sequence of the elements of s at the positions ix, in order
RECURSIVE Pick(_, _)
Pick(s, ix) ==
    IF ix = {} THEN <<>>
    ELSE LET i == CHOOSE i \in ix : \A j \in ix : i <= j
         IN  <<s[i]>> \o Pick(s, ix \ {i})

\* every result list of at most n documents of a pool
ResultLists(pool, n) ==
    {Pick(pool, ix) : ix \in {x \in SUBSET (1..Len(pool)) : Cardinality(x) <= n}}

----------------------------------------------------------------------------
(* Inputs of a run *)

Queries == {QueryPlain, QueryMarker}

\* the raw chart or comment texts of a request: None or a list
Supplied == {Pad(<<"t">>, n) : n \in 0..MaxSupplied}

\* the index directory of a collection: absent, unreadable, or holding docs
Indexes(docs) ==
    {[status |-> s, docs |-> <<>>] : s \in {"missing", "corrupt"}}
    \cup {[status |-> "ok", docs |-> docs]}

\* dict.get(key, default)
MetaGet(metadata, key, default) ==
    IF key \in DOMAIN metadata THEN metadata[key] ELSE default

\* initial_state of run and of arun_with_streaming
InitialState(query, charts, comments) ==
    [query |-> query, charts |-> charts, comments |-> comments,
     is_analytical |-> FALSE, context |-> <<>>, context_sources |-> <<>>,
     response |-> [form |-> "text", text |-> <<>>], insights |-> <<>>,
     requires_clarification |-> FALSE, suggested_questions |-> <<>>]

----------------------------------------------------------------------------
(* validate_query *)

\* the answers of the completion service to the classifier prompt
ClassifierReplies == {ReplyAnalytical, ReplyNonAnalytical, ReplyCapitalised, ReplyOther}

\* "analytical" in response.content.lower()
IsAnalyticalReply(reply) == Contains(Lower(reply), AnalyticalMarker)

\* faulty variant: an edge that goes to extract_context whatever the classification
RouteAlwaysRetrieves(s) == "extract_context"

\* faulty variant: an edge that skips extract_context for an analytical query
RouteSkipsRetrieve(s) ==
    IF s.is_analytical THEN "analyze_data" ELSE "redirect_to_analytical"

\* the conditional edge after validate_query, and the if of arun_with_streaming
RouteAfterValidate(s) ==
    IF s.is_analytical THEN "extract_context" ELSE "redirect_to_analytical"

----------------------------------------------------------------------------
(* extract_context *)

\* _index_exists: the directory and both index files exist
IndexExists(ix) == ix.status \in {"ok", "corrupt"}

\* load_index raises FileNotFoundError: the files are there but do not load
LoadRaises(ix) == ix.status = "corrupt"

\* faulty variant: a load that leaves the unreadable directory in place
KeepsUnreadableIndex(ix) == ix

\* load_index removes the directory of an index that does not load
AfterLoad(ix) ==
    IF IndexExists(ix) /\ LoadRaises(ix) THEN [status |-> "missing", docs |-> <<>>] ELSE ix

\* search_similar with k = max_context_sources, each result tagged
\* with its rank in the collection and its source type
SearchResults(ix, ranked, sourceType) ==
    IF IndexExists(ix) /\ ~LoadRaises(ix)
    THEN LET found == Take(ranked, max_context_sources)
         IN  [i \in 1..Len(found) |->
                [content |-> found[i].content, metadata |-> found[i].metadata,
                 similarity_score |-> found[i].score, feat |-> found[i].feat,
                 rank |-> i, source_type |-> sourceType]]
    ELSE <<>>

\* the note appended when the search raised FileNotFoundError
MissingNote(ix, supplied, prefix, suffix) ==
    IF IndexExists(ix) /\ LoadRaises(ix) /\ Len(supplied) > 0
    THEN <<prefix \o Digits(Len(supplied)) \o suffix>>
    ELSE <<>>

\* f"{comment_id}:{content_key[:50]}"
UniqueKey(source) ==
    MetaGet(source.metadata, "comment_id", UnknownId) \o <<":">> \o Take(Strip(source.content), KeyLen)

\* the loop over context_sources with the set seen_content
RECURSIVE DedupeFrom(_, _)
DedupeFrom(sources, seen) ==
    IF Len(sources) = 0 THEN <<>>
    ELSE LET key == UniqueKey(Head(sources))
         IN  IF key \notin seen
             THEN <<Head(sources)>> \o DedupeFrom(Tail(sources), seen \cup {key})
             ELSE DedupeFrom(Tail(sources), seen)

Dedupe(sources) == DedupeFrom(sources, {})

\* x goes before the first element with a smaller score: a stable descending order
RECURSIVE InsertByScore(_, _)
InsertByScore(sorted, x) ==
    IF Len(sorted) = 0 THEN <<x>>
    ELSE IF Head(sorted).similarity_score < x.similarity_score THEN <<x>> \o sorted
    ELSE <<Head(sorted)>> \o InsertByScore(Tail(sorted), x)

\* faulty variant: the sources left in the order they were retrieved
KeepRetrievalOrder(sources) == sources

\* unique_sources.sort(key=similarity_score, reverse=True)
RECURSIVE SortByScore(_)
SortByScore(sources) ==
    IF Len(sources) = 0 THEN <<>>
    ELSE InsertByScore(SortByScore(SubSeq(sources, 1, Len(sources) - 1)), sources[Len(sources)])

\* unique_sources[:self.max_context_sources]
Truncate(sources) == Take(sources, max_context_sources)

\* faulty variant: each source keeps the rank of its own search
KeepSearchRank(sources) == sources

\* source["rank"] = idx + 1
Rerank(sources) == [i \in 1..Len(sources) |-> [sources[i] EXCEPT !.rank = i]]

\* the text block of one source of the final list
RenderPart(source) ==
    IF source.source_type = "comment"
    THEN CommentHeader \o Digits(source.rank) \o ScoreOpen \o Digits(source.similarity_score)
         \o ScoreDecimals \o CommentIdLabel \o MetaGet(source.metadata, "comment_id", NotAvailable)
         \o ContentLabel \o source.content \o Newline
    ELSE ChartHeader \o Digits(source.rank) \o ScoreOpen \o Digits(source.similarity_score)
         \o ScoreDecimals \o PageLabel
         \o (IF "page" \in DOMAIN source.metadata THEN Digits(source.metadata.page) ELSE NotAvailable)
         \o ContentLabel \o source.content \o Newline

\* the first line of a context that has sources
FoundLine(n, query) == FoundPrefix \o Digits(n) \o FoundMiddle \o query \o FoundSuffix

\* the context_sources extract_context leaves in the state
FinalSources(found) == IF Len(found) > 0 THEN Rerank(Truncate(SortByScore(Dedupe(found)))) ELSE <<>>

\* the context_parts extract_context joins; final is FinalSources(found)
ContextParts(found, final, notes, query) ==
    IF Len(found) > 0
    THEN <<FoundLine(Len(final), query)>> \o [i \in 1..Len(final) |-> RenderPart(final[i])]
    ELSE notes \o <<NoIndexedDataMsg>>

\* the last two statements of extract_context
StoreContext(s, found, final, notes) ==
    [s EXCEPT !.context = Join(ContextParts(found, final, notes, s.query), Newline),
              !.context_sources = final]

\* extract_context
ExtractContext(s, ixs, chartsRanked, commentsRanked) ==
    LET found == SearchResults(ixs.charts, chartsRanked, "chart")
                 \o SearchResults(ixs.comments, commentsRanked, "comment")
        notes == MissingNote(ixs.charts, s.charts, ChartsNotePrefix, ChartsNoteSuffix)
                 \o MissingNote(ixs.comments, s.comments, CommentsNotePrefix, CommentsNoteSuffix)
    IN  StoreContext(s, found, FinalSources(found), notes)

----------------------------------------------------------------------------
(* Insight synthesis: analytics_utils.py.  An insight is the template of   *)
(* its sentence with the values formatted into it; case is the spelling    *)
(* variant of a sentence written by the completion service.                *)

Insight(k) == [k |-> k, a |-> 0, b |-> 0, c |-> 0, w |-> <<>>, case |-> 0]

\* insight.lower()
InsightLower(i) == [i EXCEPT !.case = 0]

RECURSIVE Sum(_)
Sum(s) == IF Len(s) = 0 THEN 0 ELSE Head(s) + Sum(Tail(s))

SeqMax(s) == CHOOSE x \in {s[i] : i \in 1..Len(s)} : \A j \in 1..Len(s) : s[j] <= x

SeqMin(s) == CHOOSE x \in {s[i] : i \in 1..Len(s)} : \A j \in 1..Len(s) : x <= s[j]

\* num/den rounded to an integer as a format specification rounds (half to even)
RoundHalfEven(num, den) ==
    LET q == num \div den
        r == num % den
    IN  IF 2 * r < den THEN q
        ELSE IF 2 * r > den THEN q + 1
        ELSE IF q % 2 = 0 THEN q ELSE q + 1

\* np.mean(values) as f"{:.1f}" prints it, in tenths
MeanTenths(values) == RoundHalfEven(10 * Sum(values), Len(values))

\* [s for s in context_sources if s.get('source_type') == t]
OfType(sources, t) == SelectSeq(sources, LAMBDA s : s.source_type = t)

\* extract_metrics(text)['percentages'] of every source, concatenated
RECURSIVE AllPercentages(_)
AllPercentages(sources) ==
    IF Len(sources) = 0 THEN <<>> ELSE Head(sources).feat.pcts \o AllPercentages(Tail(sources))

\* the insights _analyze_chart_metrics adds for one source
ChartSourceInsights(source) ==
    LET f == source.feat
    IN  (IF Len(f.pcts) > 0
         THEN <<[Insight("Average percentage metric") EXCEPT !.a = MeanTenths(f.pcts)]>>
              \o (IF \E i \in 1..Len(f.pcts) : f.pcts[i] > 50
                  THEN <<Insight("Significant metrics above 50% detected")>> ELSE <<>>)
         ELSE <<>>)
        \o (IF f.up + f.down > 0
            THEN IF f.up > f.down
                 THEN <<[Insight("Predominantly positive trends") EXCEPT !.a = f.up, !.b = f.down]>>
                 ELSE IF f.down > f.up
                 THEN <<[Insight("Areas of concern") EXCEPT !.a = f.down]>>
                 ELSE <<>>
            ELSE <<>>)

\* the loop of _analyze_chart_metrics over the chart sources
RECURSIVE ChartInsightsOf(_)
ChartInsightsOf(sources) ==
    IF Len(sources) = 0 THEN <<>>
    ELSE ChartSourceInsights(Head(sources)) \o ChartInsightsOf(Tail(sources))

\* _analyze_chart_metrics
AnalyzeChartMetrics(chart_sources) ==
    LET all_metrics == AllPercentages(chart_sources)
    IN  ChartInsightsOf(chart_sources)
        \o (IF Len(all_metrics) > 0 /\ SeqMax(all_metrics) - SeqMin(all_metrics) > 20
            THEN <<[Insight("High variance in metrics") EXCEPT !.a = 10 * (SeqMax(all_metrics) - SeqMin(all_metrics))]>>
            ELSE <<>>)

\* analyze_sentiment(text)['sentiment']; polarity in hundredths
SentimentLabel(f) ==
    IF f.posw >= 2 \/ f.polarity > 50 THEN "very_positive"
    ELSE IF f.negw >= 2 \/ f.polarity < -50 THEN "very_negative"
    ELSE IF f.polarity > 10 THEN "positive"
    ELSE IF f.polarity < -10 THEN "negative"
    ELSE "neutral"

\* the labels of a batch, in order
Labels(sources) == [i \in 1..Len(sources) |-> SentimentLabel(sources[i].feat)]

Count(s, x) == Cardinality({i \in 1..Len(s) : s[i] = x})

\* sum of the polarities of a batch, in hundredths
PolaritySum(sources) == Sum([i \in 1..Len(sources) |-> sources[i].feat.polarity])

\* _get_overall_sentiment(avg_polarity)
OverallSentiment(sources) ==
    IF PolaritySum(sources) > 30 * Len(sources) THEN "predominantly_positive"
    ELSE IF PolaritySum(sources) < -30 * Len(sources) THEN "predominantly_negative"
    ELSE "mixed"

\* analyze_batch(...)['positive_ratio'], as the number of texts labelled
\* 'positive' (the ratio is this count over the batch size)
PositiveCount(sources) == Count(Labels(sources), "positive")

\* the words identify_key_topics counts, in order of appearance
RECURSIVE TopicWords(_)
TopicWords(sources) ==
    IF Len(sources) = 0 THEN <<>> ELSE Head(sources).feat.words \o TopicWords(Tail(sources))

\* the distinct elements of s in order of first appearance
RECURSIVE Distinct(_)
Distinct(s) ==
    IF Len(s) = 0 THEN <<>>
    ELSE LET rest == Distinct(SubSeq(s, 1, Len(s) - 1))
         IN  IF \E i \in 1..Len(rest) : rest[i] = s[Len(s)] THEN rest ELSE Append(rest, s[Len(s)])

\* x goes before the first word that occurs less often: most_common's order
RECURSIVE InsertByCount(_, _, _)
InsertByCount(sorted, x, all) ==
    IF Len(sorted) = 0 THEN <<x>>
    ELSE IF Count(all, Head(sorted)) < Count(all, x) THEN <<x>> \o sorted
    ELSE <<Head(sorted)>> \o InsertByCount(Tail(sorted), x, all)

RECURSIVE SortByCount(_, _)
SortByCount(ws, all) ==
    IF Len(ws) = 0 THEN <<>>
    ELSE InsertByCount(SortByCount(SubSeq(ws, 1, Len(ws) - 1), all), ws[Len(ws)], all)

\* [t['topic'] for t in identify_key_topics(comments)[:3]]
TopTopics(sources) ==
    LET all == TopicWords(sources)
    IN  Take(SortByCount(Distinct(all), all), 3)

\* _analyze_comment_sentiment
AnalyzeCommentSentiment(comment_sources) ==
    LET n == Len(comment_sources)
        pos == PositiveCount(comment_sources)
        topics == TopTopics(comment_sources)
    IN  IF n = 0 THEN <<>>
        ELSE <<[Insight("Overall user sentiment is") EXCEPT !.w = <<OverallSentiment(comment_sources)>>]>>
             \o (IF 10 * pos > 7 * n
                 THEN <<[Insight("Strong positive feedback") EXCEPT !.a = RoundHalfEven(100 * pos, n)]>>
                 ELSE IF 10 * pos < 3 * n
                 THEN <<[Insight("Significant negative feedback") EXCEPT !.a = RoundHalfEven(100 * (n - pos), n)]>>
                 ELSE <<>>)
             \o (IF Len(topics) > 0
                 THEN <<[Insight("Key discussion topics") EXCEPT !.w = topics]>>
                 ELSE <<>>)

\* _generate_cross_insights
GenerateCrossInsights(chart_sources, comment_sources) ==
    LET chart_metrics == AllPercentages(chart_sources)
        n == Len(comment_sources)
        pos == PositiveCount(comment_sources)
    IN  IF Len(chart_metrics) > 0 /\ PolaritySum(comment_sources) > 0
        THEN IF Sum(chart_metrics) > 10 * Len(chart_metrics) /\ 10 * pos > 6 * n
             THEN <<Insight("Positive metrics align with positive user sentiment")>>
             ELSE IF Sum(chart_metrics) < 5 * Len(chart_metrics) /\ 10 * pos < 4 * n
             THEN <<Insight("Low metrics correlate with negative sentiment")>>
             ELSE <<>>
        ELSE <<>>

\* faulty variant: the comment insights first, then the chart insights
InsightsCommentsFirst(context_sources) ==
    LET chart_sources == OfType(context_sources, "chart")
        comment_sources == OfType(context_sources, "comment")
    IN  Take((IF Len(comment_sources) > 0 THEN AnalyzeCommentSentiment(comment_sources) ELSE <<>>)
             \o (IF Len(chart_sources) > 0 THEN AnalyzeChartMetrics(chart_sources) ELSE <<>>)
             \o (IF Len(chart_sources) > 0 /\ Len(comment_sources) > 0
                 THEN GenerateCrossInsights(chart_sources, comment_sources) ELSE <<>>),
             MaxInsightsGenerated)

\* InsightGenerator.generate_insights
GenerateInsights(context_sources) ==
    LET chart_sources == OfType(context_sources, "chart")
        comment_sources == OfType(context_sources, "comment")
    IN  Take((IF Len(chart_sources) > 0 THEN AnalyzeChartMetrics(chart_sources) ELSE <<>>)
             \o (IF Len(comment_sources) > 0 THEN AnalyzeCommentSentiment(comment_sources) ELSE <<>>)
             \o (IF Len(chart_sources) > 0 /\ Len(comment_sources) > 0
                 THEN GenerateCrossInsights(chart_sources, comment_sources) ELSE <<>>),
             MaxInsightsGenerated)

----------------------------------------------------------------------------
(* analyze_data, generate_response, redirect_to_analytical and the         *)
(* statements of _generate_streaming_response that follow the stream       *)

\* the "Key metric" insights analyze_data adds for one chart source: pcts[:3]
KeyMetricInsights(source) ==
    LET top == Take(source.feat.pcts, 3)
    IN  [i \in 1..Len(top) |-> [Insight("Key metric") EXCEPT !.a = top[i]]]

\* _summarize_trends(metrics['trends']), when there are trends
SummarizeTrends(f) ==
    IF f.up + f.down = 0 THEN <<>>
    ELSE IF f.up > f.down THEN <<[Insight("Positive trend detected") EXCEPT !.a = f.up]>>
    ELSE IF f.down > f.up THEN <<[Insight("Declining trend") EXCEPT !.a = f.down]>>
    ELSE <<Insight("Mixed trends observed in the data")>>

\* the loop of analyze_data over the chart sources
RECURSIVE TargetedChartInsights(_)
TargetedChartInsights(sources) ==
    IF Len(sources) = 0 THEN <<>>
    ELSE KeyMetricInsights(Head(sources)) \o SummarizeTrends(Head(sources).feat)
         \o TargetedChartInsights(Tail(sources))

\* "Metrics range from min to max (avg: mean)"
StatisticsInsight(all_metrics) ==
    IF Len(all_metrics) = 0 THEN <<>>
    ELSE <<[Insight("Metrics range") EXCEPT !.a = 10 * SeqMin(all_metrics),
                                            !.b = 10 * SeqMax(all_metrics),
                                            !.c = MeanTenths(all_metrics)]>>

\* one insight for every sentiment found in more than 20% of the comments,
\* in the order the Counter first met the sentiments
SentimentShareInsights(sources) ==
    LET labels == Labels(sources)
        kinds == Distinct(labels)
        big == SelectSeq(kinds, LAMBDA l : 5 * Count(labels, l) > Len(labels))
    IN  [i \in 1..Len(big) |->
            [Insight("sentiment in % of comments") EXCEPT
                !.a = RoundHalfEven(100 * Count(labels, big[i]), Len(labels)),
                !.w = <<big[i]>>]]

\* "Most discussed topics"
TopicInsight(sources) ==
    IF Len(TopTopics(sources)) = 0 THEN <<>>
    ELSE <<[Insight("Most discussed topics") EXCEPT !.w = TopTopics(sources)]>>

\* the insights analyze_data has collected before it asks the completion service
CollectedInsights(s) ==
    LET chart_sources == OfType(s.context_sources, "chart")
        comment_sources == OfType(s.context_sources, "comment")
    IN  (IF Len(s.context_sources) > 0 THEN GenerateInsights(s.context_sources) ELSE <<>>)
        \o (IF Len(chart_sources) > 0
            THEN TargetedChartInsights(chart_sources) \o StatisticsInsight(AllPercentages(chart_sources))
            ELSE <<>>)
        \o (IF Len(comment_sources) > 0
            THEN SentimentShareInsights(comment_sources) \o TopicInsight(comment_sources)
            ELSE <<>>)

\* if state["context"] and len(insights) < 5
AsksLlmForInsights(s) ==
    Len(s.context) > 0 /\ Len(CollectedInsights(s)) < LlmInsightThreshold

\* the sentences the completion service may return to _get_llm_insights,
\* after the parse that keeps at most three lines
LlmSentenceA == Insight("a sentence of the completion service")

LlmSentenceB == [Insight("a sentence of the completion service") EXCEPT !.case = 1]

LlmInsightReplies == {<<>>, <<LlmSentenceA>>, <<LlmSentenceA, LlmSentenceB>>}

\* the loop that drops insights equal to an earlier one but for case
RECURSIVE UniqueFrom(_, _)
UniqueFrom(insights, seen) ==
    IF Len(insights) = 0 THEN <<>>
    ELSE LET low == InsightLower(Head(insights))
         IN  IF low \notin seen
             THEN <<Head(insights)>> \o UniqueFrom(Tail(insights), seen \cup {low})
             ELSE UniqueFrom(Tail(insights), seen)

\* analyze_data; llm holds the insight lines of the completion, of which
\* _get_llm_insights returns the first three; <<>> when it was not called
AnalyzeData(s, llm) ==
    [s EXCEPT !.insights = Take(UniqueFrom(CollectedInsights(s) \o Take(llm, MaxLlmInsights), {}), MaxInsightsSync)]

HasType(sources, t) == \E i \in 1..Len(sources) : sources[i].source_type = t

NoDataQuestions ==
    <<"Would you like me to analyze your social media data? Please upload PDFs or paste comments.",
      "Can you provide specific metrics or comments you'd like me to analyze?",
      "What type of social media insights are you looking for?">>

ChartQuestions ==
    <<"Would you like to see the trend analysis over different time periods?",
      "Can I break down these metrics by specific categories?",
      "What specific metric would you like to explore in more detail?">>

CommentQuestions ==
    <<"Would you like a detailed sentiment analysis of the user comments?",
      "Should I identify the main themes and topics in user feedback?",
      "Can I analyze the reasons behind negative comments?">>

InsightQuestions ==
    <<"Would you like me to provide actionable recommendations based on these insights?",
      "Can I compare these metrics with industry benchmarks?",
      "Should I analyze the correlation between different metrics?">>

GenericQuestions ==
    <<"What specific aspect of the data would you like to explore further?",
      "Would you like to see a different perspective on this data?",
      "Can I help you identify opportunities for improvement?">>

RedirectQuestions ==
    <<"What's the engagement rate for our latest campaign?",
      "How has our follower growth changed this month?",
      "Which content types perform best?">>

\* faulty variant: the buckets are accumulated even without sources
QuestionsWithoutEmptyTest(s) ==
    LET specific == IF Len(s.insights) > 0 THEN InsightQuestions ELSE <<>>
    IN  IF Len(s.context_sources) = 0
        THEN Take(specific \o GenericQuestions, MaxQuestions)
        ELSE Take(IF HasType(s.context_sources, "chart") THEN ChartQuestions ELSE CommentQuestions, MaxQuestions)

\* faulty variant: the comment bucket comes before the chart bucket
QuestionsCommentsFirst(s) ==
    IF Len(s.context_sources) = 0 THEN Take(NoDataQuestions, MaxQuestions)
    ELSE Take(IF HasType(s.context_sources, "comment") THEN CommentQuestions ELSE ChartQuestions, MaxQuestions)

\* faulty variant: the questions about the insights are accumulated first
QuestionsInsightsFirst(s) ==
    IF Len(s.context_sources) = 0 THEN Take(NoDataQuestions, MaxQuestions)
    ELSE LET specific ==
                 (IF Len(s.insights) > 0 THEN InsightQuestions ELSE <<>>)
                 \o (IF HasType(s.context_sources, "chart") THEN ChartQuestions ELSE <<>>)
                 \o (IF HasType(s.context_sources, "comment") THEN CommentQuestions ELSE <<>>)
         IN  Take(specific \o (IF Len(specific) < 3 THEN GenericQuestions ELSE <<>>), MaxQuestions)

\* _generate_follow_up_questions
GenerateFollowUpQuestions(s) ==
    IF Len(s.context_sources) = 0 THEN Take(NoDataQuestions, MaxQuestions)
    ELSE LET specific ==
                 (IF HasType(s.context_sources, "chart") THEN ChartQuestions ELSE <<>>)
                 \o (IF HasType(s.context_sources, "comment") THEN CommentQuestions ELSE <<>>)
                 \o (IF Len(s.insights) > 0 THEN InsightQuestions ELSE <<>>)
         IN  Take(specific \o (IF Len(specific) < 3 THEN GenericQuestions ELSE <<>>), MaxQuestions)

\* the clarification test of generate_response
NeedsClarificationSync(s) == Len(s.context_sources) = 0

\* the clarification test of _generate_streaming_response
NeedsClarificationStreaming(s) ==
    Len(s.context_sources) = 0 \/ Contains(Lower(s.context), NoIndexedDataMarker)

\* generate_response
GenerateResponse(s) ==
    LET answered ==
            [s EXCEPT !.response =
                IF Len(s.insights) > 0
                THEN [form |-> "key insights", query |-> s.query, insights |-> s.insights]
                ELSE [form |-> "no insights", query |-> s.query]]
        asked == [answered EXCEPT !.suggested_questions = GenerateFollowUpQuestions(answered)]
    IN  [asked EXCEPT !.requires_clarification = NeedsClarificationSync(asked)]

\* redirect_to_analytical
RedirectToAnalytical(s) ==
    [s EXCEPT !.response = [form |-> "text", text |-> RedirectResponse],
              !.requires_clarification = TRUE,
              !.suggested_questions = RedirectQuestions]

\* the branch after the stream: generate_insights, analyze_data or neither
PostStreamBranch(s) ==
    IF s.context # NoIndexedDataMsg
    THEN IF Len(s.context_sources) > 0 THEN "generate_insights" ELSE "analyze_data"
    ELSE "skip"

\* state["response"] = response_text
StoreResponse(s, response_text) == [s EXCEPT !.response = [form |-> "text", text |-> response_text]]

\* the insights written after the stream; llm is as in AnalyzeData
PostInsights(s, llm) ==
    CASE PostStreamBranch(s) = "generate_insights" ->
             [s EXCEPT !.insights = GenerateInsights(s.context_sources)]
      [] PostStreamBranch(s) = "analyze_data" -> AnalyzeData(s, llm)
      [] OTHER -> s

\* state["suggested_questions"] = self._generate_follow_up_questions(state)
PostQuestions(s) == [s EXCEPT !.suggested_questions = GenerateFollowUpQuestions(s)]

\* faulty variant: the questions are written before the clarification flag
QuestionsBeforeClarification(s) ==
    [PostQuestions(s) EXCEPT !.requires_clarification = NeedsClarificationStreaming(s)]

\* state["requires_clarification"] = ...
PostClarification(s) == [s EXCEPT !.requires_clarification = NeedsClarificationStreaming(s)]

\* _generate_streaming_response from state["response"] = response_text on
PostStream(s, response_text, llm) ==
    PostQuestions(PostClarification(PostInsights(StoreResponse(s, response_text), llm)))

----------------------------------------------------------------------------
(* State *)

VARIABLES
    state,          \* the AgentState of the run
    idx,            \* the index directory of each collection: [status, docs]
    mode,           \* "sync": run(); "stream": arun_with_streaming()
    pc,             \* the node or statement the run is about to execute
    trace,          \* the stages the run has executed, in order
    failedIn,       \* the stage whose exception ended the run, or "none"
    searched,       \* the collections whose index the run has looked for
    retrieved,      \* the results of the searches of the run, as first gathered
    completion,     \* the fragments the completion service has yet to stream
    response_text,  \* the local response_text of _generate_streaming_response
    streamed,       \* the fragments the completion service has streamed
    handler,        \* whether a callback handler was passed to the run
    queue,          \* the asyncio.Queue of generate_stream
    cpc,            \* the statement generate_stream is about to execute
    events,         \* the events generate_stream has yielded
    saved,          \* what generate_stream has written to the conversation store
    series,         \* the numbers given to detect_anomalies
    anomalies,      \* what detect_anomalies returned for them, or "none yet"
    reply,          \* the answer of the completion service to the classifier prompt, <<>> before it
    runs            \* the chat requests served at once, each with its own state, task, queue and generator; <<>> when one request is looked at alone

runVars == <<state, idx, mode, pc, trace, failedIn, searched, retrieved>>

streamVars == <<completion, response_text, streamed>>

transportVars == <<handler, queue, cpc, events, saved>>

utilVars == <<series, anomalies, reply, runs>>

vars == <<state, idx, mode, pc, trace, failedIn, searched, retrieved, completion, response_text, streamed, handler, queue, cpc, events, saved, series, anomalies, reply, runs>>

Collections == {"charts", "comments"}

\* the fragments a completion stream may deliver
Fragments == {<<>>, <<"H","i">>, <<"!">>}

\* every stream of at most n fragments
Streams(n) == UNION {[1..k -> Fragments] : k \in 0..n}

\* the stream of a run that is called without a transport
DirectStream == <<<<"H","i">>, <<>>>>

\* queue items and events
Event(type, text) == [type |-> type, text |-> text]

\* the None that on_llm_end puts on the queue
EndOfStream == Event("None", <<>>)

\* task.done(): arun_with_streaming has returned or raised
TaskDone == pc \in {"returned", "raised"}

\* faulty variant: an accumulation that keeps only the last chunk
KeepLastChunk(text, chunk) == chunk

\* if chunk.content: response_text += chunk.content
Accumulate(text, chunk) == IF Len(chunk) > 0 THEN text \o chunk ELSE text

\* faulty variant: a failure of validate_query taken as "not analytical"
FailureDefaultsToRedirect(stage) ==
    IF stage = "validate_query" THEN "redirect_to_analytical" ELSE "raised"

\* where a run goes when a stage raises: neither validate_query nor
\* extract_context catches, and run and arun_with_streaming print and re-raise
AfterFailure(stage) == "raised"

Raise(stage) ==
    /\ pc' = AfterFailure(stage)
    /\ failedIn' = stage

----------------------------------------------------------------------------
(* The stages of a run *)

\* run() and arun_with_streaming() called directly
Init ==
    /\ mode \in {"sync", "stream"}
    /\ \E q \in Queries, ch \in Supplied, cm \in Supplied : state = InitialState(q, ch, cm)
    /\ \E c \in Catalogues : idx \in [charts : Indexes(c.charts), comments : Indexes(c.comments)]
    /\ pc = "validate_query"
    /\ trace = <<>>
    /\ failedIn = "none"
    /\ searched = {}
    /\ retrieved = <<>>
    /\ completion = IF mode = "stream" THEN DirectStream ELSE <<>>
    /\ response_text = <<>>
    /\ streamed = <<>>
    /\ handler = FALSE
    /\ queue = <<>>
    /\ cpc = "absent"
    /\ events = <<>>
    /\ saved = <<>>
    /\ series = <<>>
    /\ anomalies = "none yet"
    /\ reply = <<>>
    /\ runs = <<>>

\* validate_query, then the conditional edge; the completion service may fail
Validate ==
    /\ pc = "validate_query"
    /\ trace' = Append(trace, "validate_query")
    /\ \/ /\ Raise("validate_query")
          /\ UNCHANGED <<state, reply>>
       \/ \E content \in ClassifierReplies :
            /\ reply' = content
            /\ state' = [state EXCEPT !.is_analytical = IsAnalyticalReply(content)]
            /\ pc' = RouteAfterValidate(state')
            /\ UNCHANGED failedIn
    /\ UNCHANGED <<idx, mode, searched, retrieved>>
    /\ UNCHANGED streamVars
    /\ UNCHANGED transportVars
    /\ UNCHANGED <<series, anomalies, runs>>

\* extract_context; each search returns a ranked part of what its index holds
Retrieve ==
    /\ pc = "extract_context"
    /\ trace' = Append(trace, "extract_context")
    /\ searched' = Collections
    /\ \E chartsRanked \in ResultLists(idx.charts.docs, MaxResults),
          commentsRanked \in ResultLists(idx.comments.docs, MaxResults) :
            /\ state' = ExtractContext(state, idx, chartsRanked, commentsRanked)
            /\ retrieved' = SearchResults(idx.charts, chartsRanked, "chart")
                            \o SearchResults(idx.comments, commentsRanked, "comment")
    /\ idx' = [c \in Collections |-> AfterLoad(idx[c])]
    /\ pc' = IF mode = "sync" THEN "analyze_data" ELSE "astream_start"
    /\ UNCHANGED <<mode, failedIn>>
    /\ UNCHANGED streamVars
    /\ UNCHANGED transportVars
    /\ UNCHANGED utilVars

\* extract_context when a search raises something other than FileNotFoundError
\* (the query cannot be embedded): the first index that loads is the one searched
RetrieveFails ==
    /\ pc = "extract_context"
    /\ \E c \in Collections : idx[c].status = "ok"
    /\ trace' = Append(trace, "extract_context")
    /\ searched' = IF idx.charts.status = "ok" THEN {"charts"} ELSE Collections
    /\ idx' = IF idx.charts.status = "ok" THEN idx ELSE [idx EXCEPT !.charts = AfterLoad(idx.charts)]
    /\ Raise("extract_context")
    /\ UNCHANGED <<state, mode, retrieved>>
    /\ UNCHANGED streamVars
    /\ UNCHANGED transportVars
    /\ UNCHANGED utilVars

\* analyze_data; _get_llm_insights may fail
Analyze ==
    /\ pc = "analyze_data"
    /\ trace' = Append(trace, "analyze_data")
    /\ IF AsksLlmForInsights(state)
       THEN \/ /\ Raise("analyze_data")
               /\ UNCHANGED state
            \/ \E llm \in LlmInsightReplies :
                 /\ state' = AnalyzeData(state, llm)
                 /\ pc' = "generate_response"
                 /\ UNCHANGED failedIn
       ELSE /\ state' = AnalyzeData(state, <<>>)
            /\ pc' = "generate_response"
            /\ UNCHANGED failedIn
    /\ UNCHANGED <<idx, mode, searched, retrieved>>
    /\ UNCHANGED streamVars
    /\ UNCHANGED transportVars
    /\ UNCHANGED utilVars

\* generate_response, then END: the state is returned
Respond ==
    /\ pc = "generate_response"
    /\ trace' = Append(trace, "generate_response")
    /\ state' = GenerateResponse(state)
    /\ pc' = "returned"
    /\ UNCHANGED <<idx, mode, failedIn, searched, retrieved>>
    /\ UNCHANGED streamVars
    /\ UNCHANGED transportVars
    /\ UNCHANGED utilVars

\* redirect_to_analytical, then END or return
Redirect ==
    /\ pc = "redirect_to_analytical"
    /\ trace' = Append(trace, "redirect_to_analytical")
    /\ state' = RedirectToAnalytical(state)
    /\ pc' = "returned"
    /\ UNCHANGED <<idx, mode, failedIn, searched, retrieved>>
    /\ UNCHANGED streamVars
    /\ UNCHANGED transportVars
    /\ UNCHANGED utilVars

\* _generate_streaming_response starts the stream: on_llm_start
StreamStart ==
    /\ pc = "astream_start"
    /\ trace' = Append(trace, "_generate_streaming_response")
    /\ response_text' = <<>>
    /\ queue' = IF handler THEN Append(queue, Event("start", <<>>)) ELSE queue
    /\ pc' = "astream"
    /\ UNCHANGED <<state, idx, mode, failedIn, searched, retrieved, completion, streamed>>
    /\ UNCHANGED <<handler, cpc, events, saved>>
    /\ UNCHANGED utilVars

\* one chunk: on_llm_new_token, then response_text += chunk.content
StreamChunk ==
    /\ pc = "astream"
    /\ Len(completion) > 0
    /\ completion' = Tail(completion)
    /\ streamed' = Append(streamed, Head(completion))
    /\ queue' = IF handler THEN Append(queue, Event("text", Head(completion))) ELSE queue
    /\ response_text' = Accumulate(response_text, Head(completion))
    /\ UNCHANGED runVars
    /\ UNCHANGED <<handler, cpc, events, saved>>
    /\ UNCHANGED utilVars

\* the stream ends: on_llm_end
StreamEnd ==
    /\ pc = "astream"
    /\ Len(completion) = 0
    /\ queue' = IF handler THEN Append(queue, EndOfStream) ELSE queue
    /\ pc' = "post_stream"
    /\ UNCHANGED <<state, idx, mode, trace, failedIn, searched, retrieved>>
    /\ UNCHANGED streamVars
    /\ UNCHANGED <<handler, cpc, events, saved>>
    /\ UNCHANGED utilVars

\* the completion service fails during the stream
StreamFail ==
    /\ pc = "astream"
    /\ Raise("astream")
    /\ UNCHANGED <<state, idx, mode, trace, searched, retrieved>>
    /\ UNCHANGED streamVars
    /\ UNCHANGED transportVars
    /\ UNCHANGED utilVars

\* state["response"] = response_text, once the stream has ended
AfterStream ==
    /\ pc = "post_stream"
    /\ state' = StoreResponse(state, response_text)
    /\ pc' = "post_insights"
    /\ UNCHANGED <<idx, mode, trace, failedIn, searched, retrieved>>
    /\ UNCHANGED streamVars
    /\ UNCHANGED transportVars
    /\ UNCHANGED utilVars

\* the insights after the stream; _get_llm_insights may fail in analyze_data
StreamInsights ==
    /\ pc = "post_insights"
    /\ IF PostStreamBranch(state) = "analyze_data" /\ AsksLlmForInsights(state)
       THEN \/ /\ Raise("_generate_streaming_response")
               /\ UNCHANGED state
            \/ \E llm \in LlmInsightReplies :
                 /\ state' = PostInsights(state, llm)
                 /\ pc' = "post_clarification"
                 /\ UNCHANGED failedIn
       ELSE /\ state' = PostInsights(state, <<>>)
            /\ pc' = "post_clarification"
            /\ UNCHANGED failedIn
    /\ UNCHANGED <<idx, mode, trace, searched, retrieved>>
    /\ UNCHANGED streamVars
    /\ UNCHANGED transportVars
    /\ UNCHANGED utilVars

\* the clarification flag after the stream
StreamClarification ==
    /\ pc = "post_clarification"
    /\ state' = PostClarification(state)
    /\ pc' = "post_questions"
    /\ UNCHANGED <<idx, mode, trace, failedIn, searched, retrieved>>
    /\ UNCHANGED streamVars
    /\ UNCHANGED transportVars
    /\ UNCHANGED utilVars

\* the follow-up questions, then return state
StreamQuestions ==
    /\ pc = "post_questions"
    /\ state' = PostQuestions(state)
    /\ pc' = "returned"
    /\ UNCHANGED <<idx, mode, trace, failedIn, searched, retrieved>>
    /\ UNCHANGED streamVars
    /\ UNCHANGED transportVars
    /\ UNCHANGED utilVars

Next ==
    \/ Validate
    \/ Retrieve
    \/ RetrieveFails
    \/ Analyze
    \/ Respond
    \/ Redirect
    \/ StreamStart
    \/ StreamChunk
    \/ StreamEnd
    \/ StreamFail
    \/ AfterStream
    \/ StreamInsights
    \/ StreamClarification
    \/ StreamQuestions

Spec == Init /\ [][Next]_vars


----------------------------------------------------------------------------
(* generate_stream: the run as a task, and the loop that reads its queue *)

\* what the indexes hold when the run is served through the chat endpoint
StreamChartDocs == <<ChartDocB>>

StreamCommentDocs == <<CommentDocB>>

\* the metadata event generate_stream builds from the result of the task
DataEvent(result) ==
    [type |-> "data",
     data |-> [insights |-> result.insights,
               requires_clarification |-> result.requires_clarification,
               suggested_questions |-> result.suggested_questions,
               context_sources_count |-> Len(result.context_sources)]]

\* the assistant message add_message stores
AssistantMessage(result) ==
    [kind |-> "message",
     content |-> result.response,
     insights |-> result.insights,
     suggested_questions |-> result.suggested_questions,
     requires_clarification |-> result.requires_clarification,
     context_sources |-> Len(result.context_sources)]

\* the record save_analysis stores
AnalysisRecord(result) ==
    [kind |-> "analysis",
     query |-> result.query,
     insights |-> result.insights,
     context_sources |-> result.context_sources]

\* faulty variant: a loop that never looks at the task
KeepsWaiting(done) == "loop"

\* except asyncio.TimeoutError: if task.done(): break, else continue
AfterTimeout(done) == IF done THEN "await_task" ELSE "loop"

\* faulty variant: the generator returns from the except clause
ReturnsOnFailure == "done"

\* the except clause of the second try only prints: the finish event is next
AfterResultFailure == "yield_finish"

\* generate_stream is called: the queue and the handler exist, the task is
\* created, and the loop is about to wait for the first time
InitStream ==
    /\ mode = "stream"
    /\ \E q \in Queries, ch \in Supplied : state = InitialState(q, ch, <<>>)
    /\ idx \in [charts : Indexes(StreamChartDocs), comments : Indexes(StreamCommentDocs)]
    /\ pc = "validate_query"
    /\ trace = <<>>
    /\ failedIn = "none"
    /\ searched = {}
    /\ retrieved = <<>>
    /\ completion \in Streams(MaxChunks)
    /\ response_text = <<>>
    /\ streamed = <<>>
    /\ handler = TRUE
    /\ queue = <<>>
    /\ cpc = "loop"
    /\ events = <<>>
    /\ saved = <<>>
    /\ series = <<>>
    /\ anomalies = "none yet"
    /\ reply = <<>>
    /\ runs = <<>>

\* queue.get() returns within the timeout: None breaks, any other item is yielded
Get ==
    /\ cpc = "loop"
    /\ Len(queue) > 0
    /\ queue' = Tail(queue)
    /\ IF Head(queue) = EndOfStream
       THEN cpc' = "await_task" /\ UNCHANGED events
       ELSE events' = Append(events, Head(queue)) /\ UNCHANGED cpc
    /\ UNCHANGED <<handler, saved>>
    /\ UNCHANGED runVars
    /\ UNCHANGED streamVars
    /\ UNCHANGED utilVars

\* wait_for times out on the empty queue
Timeout ==
    /\ cpc = "loop"
    /\ Len(queue) = 0
    /\ cpc' = AfterTimeout(TaskDone)
    /\ UNCHANGED <<handler, queue, events, saved>>
    /\ UNCHANGED runVars
    /\ UNCHANGED streamVars
    /\ UNCHANGED utilVars

\* result = await task
AwaitTask ==
    /\ cpc = "await_task"
    /\ TaskDone
    /\ cpc' = IF pc = "raised" THEN AfterResultFailure ELSE "add_message"
    /\ UNCHANGED <<handler, queue, events, saved>>
    /\ UNCHANGED runVars
    /\ UNCHANGED streamVars
    /\ UNCHANGED utilVars

\* supabase_manager.add_message, which may fail; then if result.get("insights")
AddMessage ==
    /\ cpc = "add_message"
    /\ \/ /\ saved' = Append(saved, AssistantMessage(state))
          /\ cpc' = IF Len(state.insights) > 0 THEN "save_analysis" ELSE "yield_data"
       \/ /\ cpc' = AfterResultFailure
          /\ UNCHANGED saved
    /\ UNCHANGED <<handler, queue, events>>
    /\ UNCHANGED runVars
    /\ UNCHANGED streamVars
    /\ UNCHANGED utilVars

\* supabase_manager.save_analysis, which may fail
SaveAnalysis ==
    /\ cpc = "save_analysis"
    /\ \/ /\ saved' = Append(saved, AnalysisRecord(state))
          /\ cpc' = "yield_data"
       \/ /\ cpc' = AfterResultFailure
          /\ UNCHANGED saved
    /\ UNCHANGED <<handler, queue, events>>
    /\ UNCHANGED runVars
    /\ UNCHANGED streamVars
    /\ UNCHANGED utilVars

\* yield the metadata event
YieldData ==
    /\ cpc = "yield_data"
    /\ events' = Append(events, DataEvent(state))
    /\ cpc' = "yield_finish"
    /\ UNCHANGED <<handler, queue, saved>>
    /\ UNCHANGED runVars
    /\ UNCHANGED streamVars
    /\ UNCHANGED utilVars

\* yield the finish event; the generator ends
YieldFinish ==
    /\ cpc = "yield_finish"
    /\ events' = Append(events, [type |-> "finish"])
    /\ cpc' = "done"
    /\ UNCHANGED <<handler, queue, saved>>
    /\ UNCHANGED runVars
    /\ UNCHANGED streamVars
    /\ UNCHANGED utilVars

NextStream ==
    \/ Validate
    \/ Retrieve
    \/ RetrieveFails
    \/ Redirect
    \/ StreamStart
    \/ StreamChunk
    \/ StreamEnd
    \/ StreamFail
    \/ AfterStream
    \/ StreamInsights
    \/ StreamClarification
    \/ StreamQuestions
    \/ Get
    \/ Timeout
    \/ AwaitTask
    \/ AddMessage
    \/ SaveAnalysis
    \/ YieldData
    \/ YieldFinish

StreamSpec == InitStream /\ [][NextStream]_vars

\* the event loop runs the generator whenever it can continue, and the calls
\* to the conversation store return or raise
ConsumerFairness ==
    /\ WF_vars(Get)
    /\ WF_vars(Timeout)
    /\ WF_vars(AwaitTask)
    /\ WF_vars(AddMessage)
    /\ WF_vars(SaveAnalysis)
    /\ WF_vars(YieldData)
    /\ WF_vars(YieldFinish)

FairStreamSpec == StreamSpec /\ ConsumerFairness


----------------------------------------------------------------------------
(* TrendDetector.detect_anomalies: analytics_utils.py.  The z-score of a   *)
(* value v of n numbers with sum S is compared through                     *)
(*   |v - S/n| > k * std   <=>   (n*v - S)^2 > k^2 * (n * sum of squares - S^2) *)
(* which is exact on integers.  When both sides are equal the result of    *)
(* the floating-point division decides: it is exactly k when the mean is   *)
(* an integer, and may fall on either side when it is not.                 *)

\* the most leading copies of the base value in a series
MaxRepeat == 10

\* the most values that follow them
MaxTail == 3

\* the values of a series
SeriesValues == {9, 10, 11, 100}

\* the series given to detect_anomalies: copies of 10, then any short tail
AnomalySeries ==
    {Pad(10, k) \o tail : k \in 0..MaxRepeat,
                          tail \in UNION {[1..m -> SeriesValues] : m \in 0..MaxTail}}

SumOfSquares(s) == Sum([i \in 1..Len(s) |-> s[i] * s[i]])

\* n^2 times the variance np.std takes the root of
ScaledVariance(s) == Len(s) * SumOfSquares(s) - Sum(s) * Sum(s)

\* n times the distance of s[i] from the mean, squared
ScaledDeviation(s, i) == (Len(s) * s[i] - Sum(s)) * (Len(s) * s[i] - Sum(s))

\* the floating-point quotient (value - mean) / std is exactly k or -k:
\* the mean is an integer, and the deviation is a multiple of k or k is 2,
\* so that the variance is a square that np.std takes the root of exactly
ExactQuotient(s, i, k) ==
    /\ Sum(s) % Len(s) = 0
    /\ \/ k = 2
       \/ (Len(s) * s[i] - Sum(s)) % (k * Len(s)) = 0

\* the positions whose z-score is exactly 2 or 3 in magnitude and whose
\* quotient is not exact: rounding decides on which side they fall
RoundingDecides(s) ==
    {i \in 1..Len(s) :
        /\ ScaledVariance(s) > 0
        /\ \E k \in {2, 3} :
              /\ ScaledDeviation(s, i) = k * k * ScaledVariance(s)
              /\ ~ExactQuotient(s, i, k)}

\* abs(z_score) > k for the value at position i; up: the positions rounded upwards
ZScoreAbove(s, i, k, up) ==
    /\ ScaledVariance(s) > 0
    /\ \/ ScaledDeviation(s, i) > k * k * ScaledVariance(s)
       \/ ScaledDeviation(s, i) = k * k * ScaledVariance(s) /\ i \in up

\* faulty variant: a value is flagged from one standard deviation on
FlagsFromOneDeviation(s, i, up) == ZScoreAbove(s, i, 1, up)

\* if abs(z_score) > 2
IsAnomaly(s, i, up) == ZScoreAbove(s, i, 2, up)

\* the entries appended for the positions from i on
RECURSIVE AnomaliesFrom(_, _, _)
AnomaliesFrom(s, i, up) ==
    IF i > Len(s) THEN <<>>
    ELSE (IF IsAnomaly(s, i, up)
          THEN <<[index |-> i - 1, value |-> s[i],
                  severity |-> IF ZScoreAbove(s, i, 3, up) THEN "high" ELSE "medium"]>>
          ELSE <<>>)
         \o AnomaliesFrom(s, i + 1, up)

\* detect_anomalies(metrics)
DetectAnomalies(metrics, up) ==
    IF Len(metrics) < 3 THEN <<>> ELSE AnomaliesFrom(metrics, 1, up)

\* a series is about to be given to detect_anomalies; no run is under way
InitAnomalies ==
    /\ series \in AnomalySeries
    /\ anomalies = "none yet"
    /\ reply = <<>>
    /\ runs = <<>>
    /\ mode = "sync"
    /\ state = InitialState(QueryPlain, <<>>, <<>>)
    /\ idx = [c \in Collections |-> [status |-> "missing", docs |-> <<>>]]
    /\ pc = "no run"
    /\ trace = <<>>
    /\ failedIn = "none"
    /\ searched = {}
    /\ retrieved = <<>>
    /\ completion = <<>>
    /\ response_text = <<>>
    /\ streamed = <<>>
    /\ handler = FALSE
    /\ queue = <<>>
    /\ cpc = "absent"
    /\ events = <<>>
    /\ saved = <<>>

\* the call of detect_anomalies
Detect ==
    /\ anomalies = "none yet"
    /\ pc = "no run"
    /\ \E up \in SUBSET RoundingDecides(series) : anomalies' = DetectAnomalies(series, up)
    /\ UNCHANGED <<series, reply, runs>>
    /\ UNCHANGED runVars
    /\ UNCHANGED streamVars
    /\ UNCHANGED transportVars

NextAnomalies == Detect

AnomalySpec == InitAnomalies /\ [][NextAnomalies]_vars

----------------------------------------------------------------------------
(* The client abandons the request: the server stops iterating              *)
(* generate_stream and the generator is cancelled where it is suspended.    *)
(* Nothing in generate_stream cancels the task or empties the queue; only a *)
(* generator suspended in `await task` passes the cancellation on to the    *)
(* task it awaits.                                                          *)

\* the task has returned, raised or been cancelled
TaskEnded == TaskDone \/ pc = "cancelled"

\* the generator is cancelled before it has ended
Abandon ==
    /\ cpc \in {"loop", "await_task", "add_message", "save_analysis", "yield_data", "yield_finish"}
    /\ cpc' = "abandoned"
    /\ pc' = IF cpc = "await_task" /\ ~TaskDone THEN "cancelled" ELSE pc
    /\ UNCHANGED <<state, idx, mode, trace, failedIn, searched, retrieved>>
    /\ UNCHANGED streamVars
    /\ UNCHANGED <<handler, queue, events, saved>>
    /\ UNCHANGED utilVars

NextAbandon ==
    \/ NextStream
    \/ Abandon

AbandonSpec == InitStream /\ [][NextAbandon]_vars
----------------------------------------------------------------------------
(* Two chat requests served at once by the one AnalyticsAgent of main.py *)

\* the requests in flight
RunIds == {1, 2}

\* the other request
Other(r) == 3 - r

\* what the two requests ask, and what the completion service streams to each
PairQueries == <<QueryPlain, QueryMarker>>

PairCharts == <<Pad(<<"t">>, 1), <<>>>>

PairCompletions == <<<< <<"H","i">>, <<"!">> >>, << <<"!">> >>>>

\* faulty variant: the handlers of all requests put on one module-level queue
SharedQueue(r) == 1

\* the queue held by the handler that generate_stream built for request r:
\* asyncio.Queue() is a local of that call
QueueOf(r) == r

\* initial_state, queue and callback_handler as generate_stream and
\* arun_with_streaming create them for one request
NewRun(r) ==
    [state |-> InitialState(PairQueries[r], PairCharts[r], <<>>),
     pc |-> "validate_query",
     failedIn |-> "none",
     completion |-> PairCompletions[r],
     response_text |-> <<>>,
     queue |-> <<>>,
     cpc |-> "loop",
     events |-> <<>>,
     saved |-> <<>>]

\* both requests have entered generate_stream; the index directories are the
\* only thing on disk that both read
InitPair ==
    /\ runs = [r \in RunIds |-> NewRun(r)]
    /\ idx \in [charts : Indexes(StreamChartDocs), comments : Indexes(StreamCommentDocs)]
    /\ mode = "stream"
    /\ state = InitialState(QueryPlain, <<>>, <<>>)
    /\ pc = "absent"
    /\ trace = <<>>
    /\ failedIn = "none"
    /\ searched = {}
    /\ retrieved = <<>>
    /\ completion = <<>>
    /\ response_text = <<>>
    /\ streamed = <<>>
    /\ handler = TRUE
    /\ queue = <<>>
    /\ cpc = "absent"
    /\ events = <<>>
    /\ saved = <<>>
    /\ series = <<>>
    /\ anomalies = "none yet"
    /\ reply = <<>>

\* everything but the requests in flight and the index directories
singleVars == <<state, mode, pc, trace, failedIn, searched, retrieved, completion, response_text, streamed, handler, queue, cpc, events, saved, series, anomalies, reply>>

\* on_llm_start, on_llm_new_token, on_llm_end: self.queue.put(item)
Put(rs, r, item) == [rs EXCEPT ![QueueOf(r)].queue = Append(@, item)]

\* validate_query of request r
PairValidate(r) ==
    /\ runs[r].pc = "validate_query"
    /\ \/ runs' = [runs EXCEPT ![r].pc = AfterFailure("validate_query"), ![r].failedIn = "validate_query"]
       \/ \E content \in ClassifierReplies :
            LET s == [runs[r].state EXCEPT !.is_analytical = IsAnalyticalReply(content)]
            IN  runs' = [runs EXCEPT ![r].state = s, ![r].pc = RouteAfterValidate(s)]
    /\ UNCHANGED idx
    /\ UNCHANGED singleVars

\* extract_context of request r: it reads the index directories
PairRetrieve(r) ==
    /\ runs[r].pc = "extract_context"
    /\ \E chartsRanked \in ResultLists(idx.charts.docs, MaxResults),
          commentsRanked \in ResultLists(idx.comments.docs, MaxResults) :
            runs' = [runs EXCEPT ![r].state = ExtractContext(@, idx, chartsRanked, commentsRanked),
                                 ![r].pc = "astream_start"]
    /\ idx' = [c \in Collections |-> AfterLoad(idx[c])]
    /\ UNCHANGED singleVars

\* redirect_to_analytical of request r
PairRedirect(r) ==
    /\ runs[r].pc = "redirect_to_analytical"
    /\ runs' = [runs EXCEPT ![r].state = RedirectToAnalytical(@), ![r].pc = "returned"]
    /\ UNCHANGED idx
    /\ UNCHANGED singleVars

\* the stream of request r starts
PairStreamStart(r) ==
    /\ runs[r].pc = "astream_start"
    /\ runs' = Put([runs EXCEPT ![r].response_text = <<>>, ![r].pc = "astream"], r, Event("start", <<>>))
    /\ UNCHANGED idx
    /\ UNCHANGED singleVars

\* one chunk of the stream of request r
PairStreamChunk(r) ==
    /\ runs[r].pc = "astream"
    /\ Len(runs[r].completion) > 0
    /\ runs' = Put([runs EXCEPT ![r].completion = Tail(@),
                                ![r].response_text = Accumulate(@, Head(runs[r].completion))],
                   r, Event("text", Head(runs[r].completion)))
    /\ UNCHANGED idx
    /\ UNCHANGED singleVars

\* the stream of request r ends
PairStreamEnd(r) ==
    /\ runs[r].pc = "astream"
    /\ Len(runs[r].completion) = 0
    /\ runs' = Put([runs EXCEPT ![r].pc = "post_stream"], r, EndOfStream)
    /\ UNCHANGED idx
    /\ UNCHANGED singleVars

\* the completion service fails during the stream of request r
PairStreamFail(r) ==
    /\ runs[r].pc = "astream"
    /\ runs' = [runs EXCEPT ![r].pc = AfterFailure("astream"), ![r].failedIn = "astream"]
    /\ UNCHANGED idx
    /\ UNCHANGED singleVars

\* what _generate_streaming_response does with the state of request r once
\* its stream has ended
PairAfterStream(r) ==
    /\ runs[r].pc \in {"post_stream", "post_insights", "post_clarification", "post_questions"}
    /\ \/ /\ runs[r].pc = "post_stream"
          /\ runs' = [runs EXCEPT ![r].state = StoreResponse(@, runs[r].response_text),
                                  ![r].pc = "post_insights"]
       \/ /\ runs[r].pc = "post_insights"
          /\ IF PostStreamBranch(runs[r].state) = "analyze_data" /\ AsksLlmForInsights(runs[r].state)
             THEN \/ runs' = [runs EXCEPT ![r].pc = AfterFailure("_generate_streaming_response"),
                                          ![r].failedIn = "_generate_streaming_response"]
                  \/ \E llm \in LlmInsightReplies :
                       runs' = [runs EXCEPT ![r].state = PostInsights(@, llm), ![r].pc = "post_clarification"]
             ELSE runs' = [runs EXCEPT ![r].state = PostInsights(@, <<>>), ![r].pc = "post_clarification"]
       \/ /\ runs[r].pc = "post_clarification"
          /\ runs' = [runs EXCEPT ![r].state = PostClarification(@), ![r].pc = "post_questions"]
       \/ /\ runs[r].pc = "post_questions"
          /\ runs' = [runs EXCEPT ![r].state = PostQuestions(@), ![r].pc = "returned"]
    /\ UNCHANGED idx
    /\ UNCHANGED singleVars

\* the loop of generate_stream of request r: queue.get() within the timeout,
\* or the timeout
PairLoop(r) ==
    /\ runs[r].cpc = "loop"
    /\ IF Len(runs[r].queue) > 0
       THEN LET item == Head(runs[r].queue)
            IN  runs' = [runs EXCEPT ![r].queue = Tail(@),
                                     ![r].cpc = IF item = EndOfStream THEN "await_task" ELSE @,
                                     ![r].events = IF item = EndOfStream THEN @ ELSE Append(@, item)]
       ELSE runs' = [runs EXCEPT ![r].cpc = AfterTimeout(runs[r].pc \in {"returned", "raised"})]
    /\ UNCHANGED idx
    /\ UNCHANGED singleVars

\* result = await task of request r, then the message, the analysis record,
\* the data event and the finish event
PairFinish(r) ==
    /\ runs[r].cpc \in {"await_task", "add_message", "save_analysis", "yield_data", "yield_finish"}
    /\ \/ /\ runs[r].cpc = "await_task"
          /\ runs[r].pc \in {"returned", "raised"}
          /\ runs' = [runs EXCEPT ![r].cpc = IF runs[r].pc = "raised" THEN AfterResultFailure ELSE "add_message"]
       \/ /\ runs[r].cpc = "add_message"
          /\ \/ runs' = [runs EXCEPT ![r].saved = Append(@, AssistantMessage(runs[r].state)),
                                     ![r].cpc = IF Len(runs[r].state.insights) > 0 THEN "save_analysis" ELSE "yield_data"]
             \/ runs' = [runs EXCEPT ![r].cpc = AfterResultFailure]
       \/ /\ runs[r].cpc = "save_analysis"
          /\ \/ runs' = [runs EXCEPT ![r].saved = Append(@, AnalysisRecord(runs[r].state)), ![r].cpc = "yield_data"]
             \/ runs' = [runs EXCEPT ![r].cpc = AfterResultFailure]
       \/ /\ runs[r].cpc = "yield_data"
          /\ runs' = [runs EXCEPT ![r].events = Append(@, DataEvent(runs[r].state)), ![r].cpc = "yield_finish"]
       \/ /\ runs[r].cpc = "yield_finish"
          /\ runs' = [runs EXCEPT ![r].events = Append(@, [type |-> "finish"]), ![r].cpc = "done"]
    /\ UNCHANGED idx
    /\ UNCHANGED singleVars

NextPair ==
    \/ \E r \in RunIds : PairValidate(r)
    \/ \E r \in RunIds : PairRetrieve(r)
    \/ \E r \in RunIds : PairRedirect(r)
    \/ \E r \in RunIds : PairStreamStart(r)
    \/ \E r \in RunIds : PairStreamChunk(r)
    \/ \E r \in RunIds : PairStreamEnd(r)
    \/ \E r \in RunIds : PairStreamFail(r)
    \/ \E r \in RunIds : PairAfterStream(r)
    \/ \E r \in RunIds : PairLoop(r)
    \/ \E r \in RunIds : PairFinish(r)

PairSpec == InitPair /\ [][NextPair]_vars

----------------------------------------------------------------------------
(* chat_endpoint: what happens before generate_stream creates the task *)

\* f"chart_{idx}"
ChartIds == <<"chart_0", "chart_1", "chart_2">>

\* the documents create_indices_from_data makes of the chart texts; a search
\* ranks them after what the index held before
ChartDocuments(charts) ==
    [i \in 1..Len(charts) |->
        [content |-> charts[i],
         metadata |-> [source |-> "uploaded_chart", page |-> i, chart_id |-> ChartIds[i]],
         score |-> 3,
         feat |-> NoFeat]]

\* the documents create_indices_from_data makes of the comment texts
CommentDocuments(comments) ==
    [i \in 1..Len(comments) |->
        [content |-> comments[i],
         metadata |-> [source |-> "user_comment",
                       comment_id |-> <<"c","o","m","m","e","n","t","_">> \o Digits(i - 1),
                       index |-> i - 1],
         score |-> 3,
         feat |-> NoFeat]]

\* add_to_existing_index: the index that loads is extended, any other is
\* started fresh, and the result is saved
AddToExistingIndex(ix, documents) ==
    [status |-> "ok", docs |-> AfterLoad(ix).docs \o documents]

\* the message add_message stores for the user
UserMessage(s) ==
    [kind |-> "message",
     role |-> "user",
     content |-> s.query,
     charts_count |-> Len(s.charts),
     comments_count |-> Len(s.comments)]

\* faulty variant: the generator is set up without looking at the raw texts
SkipsIndexing(s) == "create_stream"

\* if chat_message.charts or chat_message.comments
AfterUserMessage(s) ==
    IF Len(s.charts) > 0 \/ Len(s.comments) > 0 THEN "create_indices" ELSE "create_stream"

\* the request has arrived: nothing is stored, no task exists
InitChat ==
    /\ mode = "stream"
    /\ \E q \in Queries, ch \in Supplied, co \in Supplied : state = InitialState(q, ch, co)
    /\ idx \in [charts : Indexes(StreamChartDocs), comments : Indexes(StreamCommentDocs)]
    /\ pc = "not created"
    /\ trace = <<>>
    /\ failedIn = "none"
    /\ searched = {}
    /\ retrieved = <<>>
    /\ completion \in Streams(MaxChunks)
    /\ response_text = <<>>
    /\ streamed = <<>>
    /\ handler = FALSE
    /\ queue = <<>>
    /\ cpc = "conversation"
    /\ events = <<>>
    /\ saved = <<>>
    /\ series = <<>>
    /\ anomalies = "none yet"
    /\ reply = <<>>
    /\ runs = <<>>

\* get_conversation or create_conversation; a missing conversation and a
\* failing store both end the request with an HTTP error
GetConversation ==
    /\ cpc = "conversation"
    /\ cpc' \in {"add_user_message", "http_error"}
    /\ UNCHANGED <<handler, queue, events, saved>>
    /\ UNCHANGED runVars
    /\ UNCHANGED streamVars
    /\ UNCHANGED utilVars

\* await supabase_manager.add_message(role="user"), which may fail
AddUserMessage ==
    /\ cpc = "add_user_message"
    /\ \/ /\ saved' = Append(saved, UserMessage(state))
          /\ cpc' = AfterUserMessage(state)
       \/ /\ cpc' = "http_error"
          /\ UNCHANGED saved
    /\ UNCHANGED <<handler, queue, events>>
    /\ UNCHANGED runVars
    /\ UNCHANGED streamVars
    /\ UNCHANGED utilVars

\* create_indices_from_data: each kind of text is added to its index; an error
\* after the index was loaded is printed and the call goes on
CreateIndices ==
    /\ cpc = "create_indices"
    /\ \E chartsFail \in BOOLEAN, commentsFail \in BOOLEAN :
         idx' = [charts |->
                    IF Len(state.charts) = 0 THEN idx.charts
                    ELSE IF chartsFail THEN AfterLoad(idx.charts)
                    ELSE AddToExistingIndex(idx.charts, ChartDocuments(state.charts)),
                 comments |->
                    IF Len(state.comments) = 0 THEN idx.comments
                    ELSE IF commentsFail THEN AfterLoad(idx.comments)
                    ELSE AddToExistingIndex(idx.comments, CommentDocuments(state.comments))]
    /\ cpc' = "create_stream"
    /\ UNCHANGED <<state, mode, pc, trace, failedIn, searched, retrieved>>
    /\ UNCHANGED <<handler, queue, events, saved>>
    /\ UNCHANGED streamVars
    /\ UNCHANGED utilVars

\* generate_stream starts: the queue, the handler and the task are created
CreateStream ==
    /\ cpc = "create_stream"
    /\ handler' = TRUE
    /\ pc' = "validate_query"
    /\ cpc' = "loop"
    /\ UNCHANGED <<state, idx, mode, trace, failedIn, searched, retrieved>>
    /\ UNCHANGED <<queue, events, saved>>
    /\ UNCHANGED streamVars
    /\ UNCHANGED utilVars

NextChat ==
    \/ GetConversation
    \/ AddUserMessage
    \/ CreateIndices
    \/ CreateStream
    \/ NextStream

ChatSpec == InitChat /\ [][NextChat]_vars

----------------------------------------------------------------------------
(* Properties of the run *)

\* extract_context has run to its end
Extracted == Len(trace) >= 2 /\ trace[2] = "extract_context" /\ failedIn # "extract_context"

\* the run has returned its state
Returned == pc = "returned"

\* the positions of the final context_sources that hold the key k
WithKey(sources, k) == {i \in 1..Len(sources) : UniqueKey(sources[i]) = k}

\* a source without the rank the stage gave it
Unranked(source) == [source EXCEPT !.rank = 0]

\* the deduplicated sources that are not in the final list
Dropped(unique, final) ==
    {i \in 1..Len(unique) : \A j \in 1..Len(final) : Unranked(final[j]) # Unranked(unique[i])}

\* C1: after extract_context, when two retrieved items share the key
\* (id, first 50 characters of the content), the final context_sources holds
\* exactly one item with that key, and its score is the higher of the two.
C1_HigherScoringDuplicateKept ==
    Extracted =>
        \A i, j \in 1..Len(retrieved) :
            (i < j /\ UniqueKey(retrieved[i]) = UniqueKey(retrieved[j])) =>
                LET kept == WithKey(state.context_sources, UniqueKey(retrieved[i]))
                IN  /\ Cardinality(kept) = 1
                    /\ \A k \in kept :
                         /\ state.context_sources[k].similarity_score >= retrieved[i].similarity_score
                         /\ state.context_sources[k].similarity_score >= retrieved[j].similarity_score

\* C2: in the state a run returns, in either mode, requires_clarification is
\* true exactly when context_sources is empty.
C2_ClarificationIffNoSources ==
    Returned => (state.requires_clarification <=> Len(state.context_sources) = 0)

\* C3: whenever extract_context ends without any source, the context is
\* exactly the "No indexed data found" sentence.
C3_SentinelWhenNoSources ==
    (Extracted /\ Len(state.context_sources) = 0) => state.context = NoIndexedDataMsg

\* the query of the run was classified, and as non-analytical
ClassifiedNonAnalytical == Len(trace) >= 1 /\ failedIn # "validate_query" /\ ~state.is_analytical

\* C4: a run whose query is classified non-analytical, in either mode, never
\* looks for an index nor searches one, and returns the fixed redirect
\* response and the three fixed example questions.
C4_RedirectNeverRetrieves ==
    ClassifiedNonAnalytical =>
        /\ searched = {}
        /\ retrieved = <<>>
        /\ \A i \in 1..Len(trace) : trace[i] \in {"validate_query", "redirect_to_analytical"}
        /\ pc \in {"redirect_to_analytical", "returned"}
        /\ Returned =>
             /\ state.response = [form |-> "text", text |-> RedirectResponse]
             /\ state.suggested_questions = RedirectQuestions
             /\ Len(state.suggested_questions) = 3
             /\ state.context_sources = <<>>

C4_Witness ==
    /\ ClassifiedNonAnalytical
    /\ Returned
    /\ mode = "stream"
    /\ state.query = QueryMarker
    /\ Len(state.charts) > 0
    /\ idx.charts.status = "ok"

AnalyticalPath == <<"validate_query", "extract_context", "analyze_data", "generate_response">>

RedirectPath == <<"validate_query", "redirect_to_analytical">>

IsPrefix(s, t) == Len(s) <= Len(t) /\ s = SubSeq(t, 1, Len(s))

\* C5: the stages of a synchronous run are a prefix of validate, retrieve,
\* analyze, respond or of validate, redirect, and the whole of one of them
\* when the run returns; the stage after validate is retrieve exactly when
\* is_analytical is true.
C5_SyncStageSequence ==
    mode = "sync" =>
        /\ IsPrefix(trace, AnalyticalPath) \/ IsPrefix(trace, RedirectPath)
        /\ Len(trace) >= 2 => (trace[2] = "extract_context" <=> state.is_analytical)
        /\ Returned => trace \in {AnalyticalPath, RedirectPath}
        /\ (pc \notin {"returned", "raised"}) => (IsPrefix(trace \o <<pc>>, AnalyticalPath) \/ IsPrefix(trace \o <<pc>>, RedirectPath))

C5_Witness == mode = "sync" /\ Returned /\ trace = AnalyticalPath /\ Len(state.context_sources) > 0

\* C9: the final context_sources never has more than max_context_sources
\* items; when the deduplicated results are more, it has exactly that many
\* and no dropped item has a higher score than a kept one.
C9_BoundedTopScoring ==
    Extracted =>
        LET unique == Dedupe(retrieved)
            final == state.context_sources
        IN  /\ Len(final) <= max_context_sources
            /\ Len(unique) > max_context_sources =>
                 /\ Len(final) = max_context_sources
                 /\ \A d \in Dropped(unique, final) : \A k \in 1..Len(final) :
                        final[k].similarity_score >= unique[d].similarity_score
                 /\ Cardinality(Dropped(unique, final)) = Len(unique) - max_context_sources

C9_Witness ==
    /\ Extracted
    /\ Len(Dedupe(retrieved)) > max_context_sources
    /\ \E d \in Dropped(Dedupe(retrieved), state.context_sources) : \E k \in 1..Len(state.context_sources) :
          state.context_sources[k].similarity_score > Dedupe(retrieved)[d].similarity_score

\* C10: when the completion service fails in validate_query, in either mode,
\* the run ends with the exception: no other stage runs, no index is looked
\* for, the state is the initial one and it is not returned.
C10_ValidateFailureAborts ==
    failedIn = "validate_query" =>
        /\ pc = "raised"
        /\ trace = <<"validate_query">>
        /\ searched = {}
        /\ state = InitialState(state.query, state.charts, state.comments)

C10_Witness == failedIn = "validate_query" /\ pc = "raised" /\ mode = "stream"



----------------------------------------------------------------------------
(* Properties of the streamed response *)

\* the positions of the finish events among the events yielded
FinishPositions == {i \in 1..Len(events) : events[i].type = "finish"}

\* the fragments of the text items of a sequence of events, in order
RECURSIVE TextFragments(_)
TextFragments(evs) ==
    IF Len(evs) = 0 THEN <<>>
    ELSE IF Head(evs).type = "text"
         THEN <<Head(evs).text>> \o TextFragments(Tail(evs))
         ELSE TextFragments(Tail(evs))

\* the run has streamed a completion to its end and returned
StreamReturned == Returned /\ state.is_analytical

\* at most one finish event is yielded, it is the last event, and the
\* generator has ended exactly when it has been yielded
FinishIsLast ==
    /\ Cardinality(FinishPositions) <= 1
    /\ \A i \in FinishPositions : i = Len(events)
    /\ cpc = "done" <=> Cardinality(FinishPositions) = 1

\* C6: generate_stream yields exactly one finish event and nothing after it:
\* never two, never an event behind it, and once the task has returned or
\* raised the generator goes on to yield it, whether the task raised or the
\* conversation store failed.
C6_ExactlyOneFinishLast == []FinishIsLast /\ (TaskDone ~> cpc = "done")

\* the task raised, or the store failed after it returned, and finish was yielded
C6_Witness ==
    /\ cpc = "done"
    /\ events[Len(events)].type = "finish"
    /\ \/ pc = "raised"
       \/ pc = "returned" /\ Len(state.insights) > 0 /\ Len(saved) = 1

\* C7: the fragments yielded as text events, followed by those still in the
\* queue, are the fragments the completion service has streamed, in the same
\* order; once the loop has ended all of them have been yielded; and the
\* response of the returned state is their concatenation.
C7_TextIsConcatenationOfFragments ==
    /\ TextFragments(events \o queue) = streamed
    /\ cpc # "loop" => TextFragments(events) = streamed
    /\ StreamReturned =>
         /\ completion = <<>>
         /\ state.response = [form |-> "text", text |-> Concat(streamed)]

C7_Witness ==
    /\ StreamReturned
    /\ cpc = "done"
    /\ Len(streamed) = 2
    /\ Len(streamed[1]) > 0
    /\ Len(streamed[2]) > 0
    /\ streamed[1] # streamed[2]
    /\ TextFragments(events) = streamed

\* C8: once the task has returned or raised, the loop of generate_stream
\* ends, whether or not None was put on the queue.
C8_LoopEndsWhenTaskDone == TaskDone ~> cpc # "loop"

\* the loop has ended for a redirected query, for which nothing is ever queued
C8_Witness ==
    /\ cpc = "await_task"
    /\ trace = RedirectPath
    /\ Returned
    /\ events = <<>>


----------------------------------------------------------------------------
(* Failures, degraded retrieval and the questions of a run *)

\* the completion stream raised after it had delivered some text
StreamRaisedWithText == failedIn = "astream" /\ Len(Concat(streamed)) > 0

\* C11: when the completion stream raises after some fragments, the run
\* ends with the exception, the text accumulated so far is the response of
\* the run, and generate_stream forwards no text it did not receive before
\* the failure.
C11_PartialResponseKept ==
    StreamRaisedWithText =>
        /\ pc = "raised"
        /\ state.response = [form |-> "text", text |-> Concat(streamed)]
        /\ cpc # "loop" => TextFragments(events) = streamed

\* the source type of the items a collection contributes
TypeOf(c) == IF c = "charts" THEN "chart" ELSE "comment"

\* the start of the note extract_context has for a collection
NotePrefixOf(c) == IF c = "charts" THEN ChartsNotePrefix ELSE CommentsNotePrefix

\* extract_context runs in this step with no index directory for c
RetrievesWithout(c) == pc = "extract_context" /\ trace' # trace /\ idx[c].status = "missing"

\* C12: when extract_context runs and a collection has no index, the stage
\* does not raise because of it, the final context_sources has no item of
\* that collection, the other collection is still looked for, and the
\* context holds a note about the missing index.
C12_MissingIndexNoted ==
    [][\A c \in Collections :
          RetrievesWithout(c) =>
              /\ (\A o \in Collections : idx[o].status # "ok") => pc' # "raised"
              /\ pc' # "raised" =>
                   /\ ~HasType(state'.context_sources, TypeOf(c))
                   /\ searched' = Collections
                   /\ Contains(state'.context, NotePrefixOf(c))]_vars

\* C13: whenever context_sources is empty, _generate_follow_up_questions
\* gives the three "please provide data" questions in their order, whatever
\* the query, the insights and the raw charts or comments; so do the
\* questions of an analytical run that returns without sources.
C13_NoSourcesFixedQuestions ==
    Len(state.context_sources) = 0 =>
        /\ GenerateFollowUpQuestions(state) = NoDataQuestions
        /\ (Returned /\ state.is_analytical) => state.suggested_questions = NoDataQuestions

\* an analytical run returned without sources, with insights and raw charts
C13_Witness ==
    /\ Returned
    /\ state.is_analytical
    /\ Len(state.context_sources) = 0
    /\ Len(state.insights) > 0
    /\ Len(state.charts) > 0
    /\ state.query = QueryMarker

\* the list _generate_follow_up_questions accumulates for a state with sources
AccumulatedQuestions(s) ==
    LET charts == IF \E i \in 1..Len(s.context_sources) : s.context_sources[i].source_type = "chart"
                  THEN ChartQuestions ELSE <<>>
        comments == IF \E i \in 1..Len(s.context_sources) : s.context_sources[i].source_type = "comment"
                    THEN CommentQuestions ELSE <<>>
        insights == IF s.insights # <<>> THEN InsightQuestions ELSE <<>>
        specific == charts \o comments \o insights
    IN  IF Len(specific) < 3 THEN specific \o GenericQuestions ELSE specific

\* C14: whenever context_sources is not empty, _generate_follow_up_questions
\* gives exactly three questions, the first three of the chart bucket (if a
\* chart source exists), the comment bucket (if a comment source exists), the
\* insights bucket (if there are insights) and, only if these are fewer than
\* three, the generic bucket, appended in this order; so do the questions of
\* a run that returns with sources.
C14_QuestionsFromBuckets ==
    Len(state.context_sources) > 0 =>
        /\ Len(GenerateFollowUpQuestions(state)) = 3
        /\ GenerateFollowUpQuestions(state) = SubSeq(AccumulatedQuestions(state), 1, 3)
        /\ Returned => state.suggested_questions = SubSeq(AccumulatedQuestions(state), 1, 3)

\* a run returned with comment sources only and with insights
C14_Witness ==
    /\ Returned
    /\ Len(state.context_sources) > 0
    /\ ~HasType(state.context_sources, "chart")
    /\ Len(state.insights) > 0
    /\ state.suggested_questions = CommentQuestions

\* the first position of x in s
FirstPosition(s, x) == CHOOSE i \in 1..Len(s) : s[i] = x /\ \A j \in 1..(i - 1) : s[j] # x

\* C15: the insights of a returned state, in either mode, hold no two
\* entries that are equal but for letter case, and those that
\* generate_insights produced stand in the order it produced them.
C15_InsightsDeduplicated ==
    Returned =>
        /\ \A i, j \in 1..Len(state.insights) :
              i < j => InsightLower(state.insights[i]) # InsightLower(state.insights[j])
        /\ LET generated == GenerateInsights(state.context_sources)
               made == {i \in 1..Len(state.insights) : \E g \in 1..Len(generated) : generated[g] = state.insights[i]}
           IN  \A i, j \in made :
                  i < j => FirstPosition(generated, state.insights[i]) <= FirstPosition(generated, state.insights[j])

\* an insight of the template k is among the insights
HasInsight(insights, k) == \E i \in 1..Len(insights) : insights[i].k = k

\* the comments of a batch that analyze_sentiment labels positive or very positive
PositiveComments(batch) ==
    {i \in 1..Len(batch) : SentimentLabel(batch[i].feat) \in {"positive", "very_positive"}}

\* C16: for the comment sources of a run, when more than 70% of them are
\* labelled positive (positive or very positive) the comment insights hold
\* "Strong positive feedback", when fewer than 30% are they hold
\* "Significant negative feedback", and when exactly half are they hold
\* neither.
C16_SentimentThresholds ==
    LET batch == OfType(state.context_sources, "comment")
        n == Len(batch)
        p == Cardinality(PositiveComments(batch))
        insights == AnalyzeCommentSentiment(batch)
    IN  (Extracted /\ n > 0) =>
            /\ 10 * p > 7 * n => HasInsight(insights, "Strong positive feedback")
            /\ 10 * p < 3 * n => HasInsight(insights, "Significant negative feedback")
            /\ 2 * p = n => /\ ~HasInsight(insights, "Strong positive feedback")
                            /\ ~HasInsight(insights, "Significant negative feedback")

----------------------------------------------------------------------------
\* detect_anomalies has returned for the series
Detected == anomalies # "none yet"

\* the z-score of the value at position i is above k in exact arithmetic
StrictlyAbove(i, k) ==
    /\ ScaledVariance(series) > 0
    /\ ScaledDeviation(series, i) > k * k * ScaledVariance(series)

\* the z-score of the value at position i is k or more in exact arithmetic
AtLeast(i, k) ==
    /\ ScaledVariance(series) > 0
    /\ ScaledDeviation(series, i) >= k * k * ScaledVariance(series)

\* the value at position i of the series is among the anomalies
Flagged(i) == \E j \in 1..Len(anomalies) : anomalies[j].index = i - 1

\* the value at position i of the series is among the anomalies as "high"
FlaggedHigh(i) ==
    \E j \in 1..Len(anomalies) :
        anomalies[j].index = i - 1 /\ anomalies[j].severity = "high"

\* C17: detect_anomalies on [10,10,10,10,100] flags the value 100 with
\* severity "high", and on [10,11,9,10] flags nothing; in general a value is
\* flagged exactly when its z-score exceeds 2 in magnitude, and nothing is
\* flagged for fewer than three values or for values of zero variance.
C17_DetectsAnomalies ==
    Detected =>
        /\ series = <<10, 10, 10, 10, 100>> =>
              \E j \in 1..Len(anomalies) :
                  /\ anomalies[j].index = 4
                  /\ anomalies[j].value = 100
                  /\ anomalies[j].severity = "high"
        /\ series = <<10, 11, 9, 10>> => anomalies = <<>>
        /\ \A i \in 1..Len(series) : StrictlyAbove(i, 2) => Flagged(i)
        /\ \A i \in 1..Len(series) : Flagged(i) => AtLeast(i, 2)
        /\ (Len(series) < 3 \/ ScaledVariance(series) = 0) => anomalies = <<>>

\* C17 (amended): detect_anomalies on [10,10,10,10,100] flags nothing, the
\* value 100 being exactly two standard deviations from the mean, and on
\* [10,11,9,10] flags nothing; ten values 10 followed by 100 flag the 100 as
\* "high".  In general a series of at least three values flags every value
\* more than two standard deviations from the mean and none less than two,
\* in the order of the series, with severity "high" for every value more
\* than three deviations away and for none less than three; nothing is
\* flagged for fewer than three values or for values of zero variance.
C17_FlagsAboveTwoDeviations ==
    Detected =>
        /\ series = <<10, 10, 10, 10, 100>> => anomalies = <<>>
        /\ series = <<10, 11, 9, 10>> => anomalies = <<>>
        /\ series = Pad(10, 10) \o <<100>> =>
              anomalies = <<[index |-> 10, value |-> 100, severity |-> "high"]>>
        /\ Len(series) >= 3 =>
              \A i \in 1..Len(series) :
                  /\ StrictlyAbove(i, 2) => Flagged(i)
                  /\ Flagged(i) => AtLeast(i, 2)
                  /\ StrictlyAbove(i, 3) => FlaggedHigh(i)
                  /\ FlaggedHigh(i) => AtLeast(i, 3)
        /\ \A j \in 1..Len(anomalies) :
              /\ anomalies[j].index \in 0..(Len(series) - 1)
              /\ anomalies[j].value = series[anomalies[j].index + 1]
              /\ j > 1 => anomalies[j - 1].index < anomalies[j].index
        /\ (Len(series) < 3 \/ ScaledVariance(series) = 0) => anomalies = <<>>

\* detect_anomalies returned nothing for [10,10,10,10,100]
C17_Witness ==
    /\ Detected
    /\ series = <<10, 10, 10, 10, 100>>
    /\ anomalies = <<>>

----------------------------------------------------------------------------
\* the step writes state["insights"]
WritesInsights == state'.insights # state.insights

\* the step writes state["requires_clarification"]
WritesClarification == state'.requires_clarification # state.requires_clarification

\* the step writes state["suggested_questions"]
WritesQuestions == state'.suggested_questions # state.suggested_questions

\* the completion has been streamed to its end and stored as the response
StreamConsumed ==
    /\ Len(completion) = 0
    /\ \E i \in 1..Len(trace) : trace[i] = "_generate_streaming_response"
    /\ response_text = Concat(streamed)
    /\ state.response = [form |-> "text", text |-> response_text]

\* a step of the streaming analytical branch writes the three fields only
\* once the stream is consumed, each at its own place, the questions last
WritesAfterStream ==
    (mode = "stream" /\ state.is_analytical) =>
        /\ (WritesInsights \/ WritesClarification \/ WritesQuestions) => StreamConsumed
        /\ WritesInsights => pc = "post_insights" /\ pc' = "post_clarification"
        /\ WritesClarification => pc = "post_clarification" /\ pc' = "post_questions"
        /\ WritesQuestions =>
              /\ pc = "post_questions"
              /\ pc' = "returned"
              /\ state' = [state EXCEPT !.suggested_questions = state'.suggested_questions]
        /\ pc = "returned" => state' = state

\* a data event follows every text event, carries the fields of the
\* returned state, and leaves no fragment behind it in the queue
DataAfterText ==
    \A i \in 1..Len(events) :
        events[i].type = "data" =>
            /\ \A j \in 1..Len(events) : events[j].type = "text" => j < i
            /\ \A j \in 1..Len(queue) : queue[j].type # "text"
            /\ TextFragments(SubSeq(events, 1, i - 1)) = streamed
            /\ state.is_analytical => Len(completion) = 0
            /\ pc = "returned"
            /\ events[i] = DataEvent(state)

\* C18: on the streaming analytical branch insights, requires_clarification
\* and suggested_questions are written only after the completion stream has
\* been consumed to its end, suggested_questions being the last field
\* written, and the data event is yielded only after every text event.
C18_MetadataAfterStream == [][WritesAfterStream]_vars /\ []DataAfterText

\* a streamed analytical run with two fragments ended with its data event
C18_Witness ==
    /\ cpc = "done"
    /\ state.is_analytical
    /\ Len(streamed) = 2
    /\ Len(state.insights) > 0
    /\ Len(state.suggested_questions) = MaxQuestions
    /\ \E i \in 1..Len(events) : events[i].type = "data" /\ i > 2

----------------------------------------------------------------------------
\* C19: after extract_context the final context_sources is in the order of
\* non-increasing similarity_score and the item at position i, counted from
\* 1, has rank i, so that the ranks are exactly 1..N without gap or repeat,
\* whatever the chart and the comment search returned.
C19_SortedAndRanked ==
    Extracted =>
        \A i \in 1..Len(state.context_sources) :
            /\ state.context_sources[i].rank = i
            /\ i > 1 => state.context_sources[i - 1].similarity_score
                           >= state.context_sources[i].similarity_score

\* sources of both collections, retrieved in another order than the final one
C19_Witness ==
    /\ Extracted
    /\ Len(state.context_sources) >= 3
    /\ HasType(state.context_sources, "chart")
    /\ HasType(state.context_sources, "comment")
    /\ state.context_sources[1].content # retrieved[1].content
    /\ state.context_sources[1].similarity_score
          > state.context_sources[Len(state.context_sources)].similarity_score

----------------------------------------------------------------------------
\* the id of a retrieved item that is specific to its collection
CollectionId(source) ==
    IF source.source_type = "comment"
    THEN MetaGet(source.metadata, "comment_id", UnknownId)
    ELSE IF "chart_id" \in DOMAIN source.metadata THEN source.metadata.chart_id ELSE "unknown"

\* same collection-specific id, and same first KeyLen characters of the
\* trimmed, lowercased content
SameItem(a, b) ==
    /\ a.source_type = b.source_type
    /\ CollectionId(a) = CollectionId(b)
    /\ Take(Lower(Strip(a.content)), KeyLen) = Take(Lower(Strip(b.content)), KeyLen)

\* the positions of the retrieved items that repeat no earlier one
FirstOfItsKind ==
    {j \in 1..Len(retrieved) :
        \A i \in 1..(j - 1) : ~SameItem(retrieved[i], retrieved[j])}

\* C20: two retrieved items are treated as duplicates exactly when they have
\* the same collection-specific id (comment id or chart id) and the same
\* first 50 characters of trimmed, lowercased content: when no more items
\* are retrieved than the list may hold, the final list has one item for
\* each such class, so that charts of different chart ids are never merged
\* and items that differ only in letter case are.
C20_DuplicatesByIdAndLoweredText ==
    (Extracted /\ Len(retrieved) <= max_context_sources) =>
        /\ Len(state.context_sources) = Cardinality(FirstOfItsKind)
        /\ \A j \in 1..Len(retrieved) :
              \E k \in 1..Len(state.context_sources) :
                  SameItem(state.context_sources[k], retrieved[j])

----------------------------------------------------------------------------
\* C24: when a run has chart and comment sources, the cross insights hold at
\* most one statement: "Positive metrics align with positive user sentiment"
\* exactly when the mean chart percentage is above 10 and the positive ratio
\* above 0.6, "Low metrics correlate with negative sentiment" exactly when
\* the mean is below 5 and the ratio below 0.4, and nothing otherwise.
C24_CrossInsightByThresholds ==
    LET chart_sources == OfType(state.context_sources, "chart")
        comment_sources == OfType(state.context_sources, "comment")
        pcts == AllPercentages(chart_sources)
        n == Len(comment_sources)
        pos == PositiveCount(comment_sources)
        cross == GenerateCrossInsights(chart_sources, comment_sources)
    IN  (Extracted /\ Len(chart_sources) > 0 /\ n > 0) =>
            /\ Len(cross) <= 1
            /\ HasInsight(cross, "Positive metrics align with positive user sentiment")
                  <=> (Len(pcts) > 0 /\ Sum(pcts) > 10 * Len(pcts) /\ 10 * pos > 6 * n)
            /\ HasInsight(cross, "Low metrics correlate with negative sentiment")
                  <=> (Len(pcts) > 0 /\ Sum(pcts) < 5 * Len(pcts) /\ 10 * pos < 4 * n)

----------------------------------------------------------------------------
\* the insights of the chart sources, then of the comment sources, then the
\* cross insights, each in the order they are generated
InsightStages(sources) ==
    LET chart_sources == OfType(sources, "chart")
        comment_sources == OfType(sources, "comment")
    IN  (IF Len(chart_sources) > 0 THEN AnalyzeChartMetrics(chart_sources) ELSE <<>>)
        \o (IF Len(comment_sources) > 0 THEN AnalyzeCommentSentiment(comment_sources) ELSE <<>>)
        \o (IF Len(chart_sources) > 0 /\ Len(comment_sources) > 0
            THEN GenerateCrossInsights(chart_sources, comment_sources) ELSE <<>>)

\* a streaming run has returned the insights of generate_insights
GeneratedInsightsReturned ==
    /\ Returned
    /\ mode = "stream"
    /\ state.is_analytical
    /\ Len(state.context_sources) > 0

\* C25: the list generate_insights returns is the first 10 elements of the
\* chart insights followed by the comment insights followed by the cross
\* insights, each in the order of its generation: nothing is reordered and
\* the list never has more than 10 elements.
C25_InsightsInStageOrder ==
    GeneratedInsightsReturned =>
        /\ Len(state.insights) <= 10
        /\ Len(state.insights) = Min(10, Len(InsightStages(state.context_sources)))
        /\ \A i \in 1..Len(state.insights) :
              state.insights[i] = InsightStages(state.context_sources)[i]

\* more than 10 insights of all three stages were generated and 10 returned
C25_Witness ==
    /\ GeneratedInsightsReturned
    /\ Len(InsightStages(state.context_sources)) > 10
    /\ Len(state.insights) = 10
    /\ HasType(state.context_sources, "chart")
    /\ HasType(state.context_sources, "comment")

----------------------------------------------------------------------------
\* the stage the run took, or is about to take, after validate_query
BranchTaken == IF Len(trace) >= 2 THEN trace[2] ELSE pc

\* C26: the classifier prompt allows the two answers 'analytical' and
\* 'non-analytical'; after the answer 'non-analytical' the run takes the
\* redirect branch and after 'analytical' the retrieve branch, so that each
\* of the two branches is taken for one of the allowed answers.
C26_TwoAnswersTwoBranches ==
    /\ reply = ReplyNonAnalytical =>
          ~state.is_analytical /\ BranchTaken = "redirect_to_analytical"
    /\ reply = ReplyAnalytical =>
          state.is_analytical /\ BranchTaken = "extract_context"

----------------------------------------------------------------------------
\* C27: every returned state whose context_sources is empty has no
\* insights, in the synchronous and in the streaming mode, so that a run
\* that found no evidence presents no key insights and saves no analysis.
C27_NoSourcesNoInsights ==
    (Returned /\ Len(state.context_sources) = 0) => Len(state.insights) = 0

----------------------------------------------------------------------------
\* the state as extract_context left it: the fields of the later stages unset
AfterRetrieve ==
    [state EXCEPT !.response = [form |-> "text", text |-> <<>>],
                  !.insights = <<>>,
                  !.requires_clarification = FALSE,
                  !.suggested_questions = <<>>]

\* the states run() may return from the state r that extract_context left
SyncOutcomesOf(r) ==
    {GenerateResponse(AnalyzeData(r, llm)) :
        llm \in IF AsksLlmForInsights(r) THEN LlmInsightReplies ELSE {<<>>}}

\* the states arun_with_streaming may return from the state r
StreamOutcomesOf(r) ==
    {PostStream(r, <<>>, llm) :
        llm \in IF PostStreamBranch(r) = "analyze_data" /\ AsksLlmForInsights(r)
                THEN LlmInsightReplies ELSE {<<>>}}

SyncOutcomes == SyncOutcomesOf(AfterRetrieve)

StreamOutcomes == StreamOutcomesOf(AfterRetrieve)

\* the fields the two modes are compared on
Metadata(s) == <<s.requires_clarification, s.insights, s.suggested_questions>>

\* C28: for the same query, classification and retrieval results the
\* synchronous and the streaming run end with the same
\* requires_clarification, insights and suggested_questions: what a run
\* returned in one mode is what the other mode may return as well.
C28_ModesAgree ==
    (Returned /\ state.is_analytical) =>
        \E other \in (IF mode = "sync" THEN StreamOutcomes ELSE SyncOutcomes) :
            Metadata(other) = Metadata(state)

----------------------------------------------------------------------------
\* the index directories a run may find
IndexStates ==
    UNION {[charts : Indexes(c.charts), comments : Indexes(c.comments)] : c \in Catalogues}

\* every state extract_context may leave for an analytical query
RetrievedStates ==
    UNION {{ExtractContext([InitialState(q, ch, cm) EXCEPT !.is_analytical = TRUE],
                           ixs, chartsRanked, commentsRanked) :
                chartsRanked \in ResultLists(ixs.charts.docs, MaxResults),
                commentsRanked \in ResultLists(ixs.comments.docs, MaxResults)} :
            q \in Queries, ch \in Supplied, cm \in Supplied, ixs \in IndexStates}

\* every state an analytical run may return, in either mode
AnalyticalOutcomes ==
    UNION {SyncOutcomesOf(r) \cup StreamOutcomesOf(r) : r \in RetrievedStates}

\* the question q is among the suggested questions of s
Suggests(s, q) == \E i \in 1..Len(s.suggested_questions) : s.suggested_questions[i] = q

\* some question of the bucket is among the suggested questions of s
SuggestsFrom(s, bucket) == \E j \in 1..Len(bucket) : Suggests(s, bucket[j])

\* C29: each bucket of the question rule table can appear in the output:
\* some run returns non-empty context_sources with a question of the
\* insights bucket, and some run returns non-empty context_sources with a
\* generic fallback question.
C29_EveryBucketAppears ==
    /\ \E s \in AnalyticalOutcomes :
          Len(s.context_sources) > 0 /\ SuggestsFrom(s, InsightQuestions)
    /\ \E s \in AnalyticalOutcomes :
          Len(s.context_sources) > 0 /\ SuggestsFrom(s, GenericQuestions)

\* C29 (amended): a run that returns non-empty context_sources suggests the
\* three chart questions when it has a chart source and the three comment
\* questions otherwise; no question of the insights bucket and no generic
\* fallback question is ever suggested with non-empty context_sources.
C29_OnlyFirstBucketAppears ==
    (Returned /\ state.is_analytical /\ Len(state.context_sources) > 0) =>
        /\ state.suggested_questions =
              (IF HasType(state.context_sources, "chart") THEN ChartQuestions ELSE CommentQuestions)
        /\ ~SuggestsFrom(state, InsightQuestions)
        /\ ~SuggestsFrom(state, GenericQuestions)

\* a run returned comment sources only, with insights, and the comment questions
C29_Witness ==
    /\ Returned
    /\ state.is_analytical
    /\ Len(state.context_sources) > 0
    /\ ~HasType(state.context_sources, "chart")
    /\ Len(state.insights) > 0
    /\ state.suggested_questions = CommentQuestions

----------------------------------------------------------------------------
\* a step of extract_context that looks for the index of c and finds its
\* files present but unreadable
HitsCorrupt(c) ==
    /\ pc = "extract_context"
    /\ trace' # trace
    /\ c \in searched'
    /\ idx[c].status = "corrupt"

\* the step discards the index of c: later existence checks return false
Discards(c) == idx'[c].status = "missing" /\ ~IndexExists(idx'[c])

\* the step goes on to the other collection, and has no item of c
ContinuesWithout(c) ==
    /\ searched' = Collections
    /\ pc' # "raised" =>
          /\ ~HasType(state'.context_sources, TypeOf(c))
          /\ \A o \in Collections \ {c} :
                idx[o].status = "ok" => idx'[o] = idx[o]

\* an index that does not exist is not looked at again: it stays absent
StaysAbsent(c) == ~IndexExists(idx[c]) => idx'[c] = idx[c]

\* C23: when the files of an index are present but unreadable, the load
\* discards the index directory and reports the index as missing; the run
\* that hit it goes on to the other collection, and every later existence
\* check for the collection returns false, so that the unreadable files are
\* never loaded again.
C23_CorruptIndexDiscarded ==
    [][\A c \in Collections :
          /\ HitsCorrupt(c) => Discards(c) /\ ContinuesWithout(c)
          /\ StaysAbsent(c)]_vars

\* a run found the charts index unreadable, discarded it and returned
C23_Witness ==
    /\ Returned
    /\ Contains(state.context, ChartsNotePrefix)
    /\ idx.charts.status = "missing"
    /\ searched = Collections
    /\ Len(state.context_sources) = 0

----------------------------------------------------------------------------
\* the client has abandoned the request before the stream ended
Abandoned == cpc = "abandoned"

\* C21: once the request of a streaming run is abandoned by its client, the
\* producer task is cancelled and the queue is drained: no task keeps
\* running and no fragment stays in the queue.
C21_AbandonCancelsAndDrains ==
    Abandoned => TaskEnded /\ Len(queue) = 0

----------------------------------------------------------------------------
\* the request carries raw chart or comment texts
CarriesTexts == Len(state.charts) > 0 \/ Len(state.comments) > 0

\* the message of the user is in the conversation store
UserMessageSaved == \E i \in 1..Len(saved) : saved[i] = UserMessage(state)

\* the message of the assistant is in the given store
AssistantMessageIn(store) == \E i \in 1..Len(store) : store[i] = AssistantMessage(state)

\* the metadata event is among the given events
DataEventIn(sent) == \E i \in 1..Len(sent) : sent[i].type = "data"

\* this step creates the task of the run
TaskIsCreated == pc = "not created" /\ pc' # "not created"

\* this step is the first of validate_query or extract_context
StageStarts == Len(trace') > Len(trace)

\* this step stores the message of the assistant
AssistantMessageIsSaved == ~AssistantMessageIn(saved) /\ AssistantMessageIn(saved')

\* C30: in a chat request the indexing of the raw texts has returned, with
\* its errors swallowed, before the task is created and so before
\* validate_query or extract_context start; the message of the user is stored
\* before the task is created; the message of the assistant is stored only
\* after the task has returned without raising and before the data event.
C30_PreludeThenTaskThenMessage ==
    [][/\ TaskIsCreated =>
            /\ UserMessageSaved
            /\ cpc = "create_stream"
       /\ (CarriesTexts /\ cpc # "create_stream" /\ cpc' = "create_stream") =>
            /\ cpc = "create_indices"
            /\ pc = "not created"
       /\ StageStarts => pc # "not created" /\ cpc \notin {"conversation", "add_user_message", "create_indices", "create_stream"}
       /\ AssistantMessageIsSaved => pc = "returned" /\ ~DataEventIn(events')
       /\ (~DataEventIn(events) /\ DataEventIn(events')) => AssistantMessageIn(saved)]_vars

\* a request with a chart text: the text was indexed, the run retrieved it,
\* both messages are stored and the data event was sent
C30_Witness ==
    /\ Len(state.charts) > 0
    /\ \E i \in 1..Len(state.context_sources) :
         state.context_sources[i].metadata.source = "uploaded_chart"
    /\ Len(saved) >= 2
    /\ saved[1] = UserMessage(state)
    /\ AssistantMessageIn(saved)
    /\ DataEventIn(events)

----------------------------------------------------------------------------
\* the text of the fragments among the given events
RECURSIVE TextOf(_)
TextOf(sent) ==
    IF Len(sent) = 0 THEN <<>>
    ELSE (IF Head(sent).type = "text" THEN Head(sent).text ELSE <<>>) \o TextOf(Tail(sent))

\* the whole text of the fragments of a completion
RECURSIVE Joined(_)
Joined(chunks) == IF Len(chunks) = 0 THEN <<>> ELSE Head(chunks) \o Joined(Tail(chunks))

\* all that request r holds came from request r: its query and raw texts,
\* the fragments streamed to it, its response, what it stored and what it sent
OwnData(r) ==
    LET run == runs[r]
        delivered == TextOf(run.events)
        waiting == TextOf(run.queue)
    IN  /\ run.state.query = PairQueries[r]
        /\ run.state.charts = PairCharts[r]
        /\ IsPrefix(delivered \o waiting, Joined(PairCompletions[r]))
        /\ run.response_text \o Joined(run.completion) = Joined(PairCompletions[r])
        /\ run.pc = "returned" /\ run.state.is_analytical =>
              run.state.response.text = Joined(PairCompletions[r])
        /\ \A i \in 1..Len(run.events) :
              run.events[i].type = "data" => run.events[i] = DataEvent(run.state)
        /\ \A i \in 1..Len(run.saved) :
              run.saved[i] \in {AssistantMessage(run.state), AnalysisRecord(run.state)}

\* C22: of two streaming requests served at once by the shared agent, each
\* reads and writes only its own PipelineState and its own queue: a step of
\* one leaves the state, the task, the queue and the events of the other as
\* they were, and all that a request holds came from its own inputs.
C22_RunsKeepToThemselves ==
    [][\A r \in RunIds :
          /\ runs'[r] # runs[r] => runs'[Other(r)] = runs[Other(r)]
          /\ OwnData(r)']_vars

\* both streams are under way at once, with fragments waiting in both queues
\* and one already delivered
C22_Witness ==
    /\ DOMAIN runs = RunIds
    /\ runs[1].pc = "astream" /\ runs[2].pc = "astream"
    /\ Len(TextOf(runs[1].queue)) > 0 /\ Len(TextOf(runs[2].queue)) > 0
    /\ Len(TextOf(runs[1].events)) > 0
====
